---- MODULE Spec2Model ----
(***************************************************************************)
(* cache2go: one CacheTable with its CacheItems, the self-adjusting        *)
(* expiration timer and the goroutines that operate on it.                 *)
(*                                                                         *)
(* Goroutines are the client goroutines Procs and the goroutines spawned   *)
(* by time.AfterFunc (Sweepers).  Every goroutine has a call stack of      *)
(* frames, because user callbacks re-enter the cache.  A step is one       *)
(* critical section, or the code between two lock operations.              *)
(***************************************************************************)
EXTENDS Integers, Sequences, FiniteSets

\* ---------------------------------------------------------------- bounds
MaxItems == 2
MaxOps == 3
MaxTime == 2
CallbackTime == 1
MaxCalls == 4

Keys == {"k1", "k2"}
LifeSpans == {0, 1, 2}
CallbackKinds == {"nop", "KeepAlive"}

\* Names of tables in the registry.
Names == {"a", "b"}

\* Keys of the hashes stored as payloads.
HKeys == {"h1", "h2"}

Procs == {1, 2}
Sweepers == {3}
Threads == Procs \cup Sweepers
ItemIds == 1..MaxItems

VARIABLES
    now,              \* time.Now()
    items,            \* table.items: key -> item id, 0 when the key is absent
    heap,             \* the CacheItem objects allocated so far, by id
    cleanupTimer,     \* table.cleanupTimer: the timer object the table points to
    orphanTimers,     \* deadlines of pending timers the table no longer points to
    cleanupInterval,  \* table.cleanupInterval
    addedItem,        \* table.addedItem
    aboutToDeleteItem,\* table.aboutToDeleteItem
    tableW,           \* holder of the table's write lock, 0 when free
    itemR,            \* item id -> goroutine -> read locks it holds on the item
    stack,            \* goroutine -> its call stack, innermost frame last
    ops,              \* client calls started so far
    race,             \* key -> NotFoundAdd results since the key was last absent
    quietSinceFlush,  \* a Flush has run and nothing was inserted since
    horizon,          \* the time up to which the run is followed
    budget,           \* the number of client calls the run is followed for
    loadData,         \* table.loadData
    ret,              \* goroutine -> what its last call returned; <<>> in the
                      \* runs that do not record it
    hist,             \* the calls that returned and the removals by the
                      \* sweep, in order; <<>> in the runs that do not record it
    registry,         \* the package's map of tables by name, and its mutex
    aSet              \* a Set: its members and its len field

timerVars == <<cleanupTimer, orphanTimers>>
queueVars == <<addedItem, aboutToDeleteItem>>
lockVars == <<tableW, itemR>>

vars == <<now, items, heap, cleanupTimer, orphanTimers, cleanupInterval,
          addedItem, aboutToDeleteItem, tableW, itemR, stack, ops, race,
          quietSinceFlush, horizon, budget, loadData, ret, hist, registry, aSet>>

\* ------------------------------------------------------------- data model
\* The registry: var cache = make(map[string]*CacheTable) and var mutex, a
\* sync.RWMutex with its readers and its writer.  Tables are numbered in the
\* order of their creation; 0 is the absent entry.
NoTables == [cache |-> [n \in Names |-> 0], made |-> 0, readers |-> {}, writer |-> 0]

\* NewSet: len 0 and an empty map of members.
NewSet == [len |-> 0, members |-> {}]

\* The payload of an item, item.data: a value of the client's, or the
\* map[interface{}]interface{} of the hash adapter, given by its keys.
Plain == [kind |-> "value", hash |-> {}]

\* keepAlives is history: the keep-alive events completed on the item.
NoItem == [key |-> "", lifeSpan |-> 0, createdOn |-> 0, accessedOn |-> 0,
           accessCount |-> 0, aboutToExpire |-> <<>>, keepAlives |-> 0,
           data |-> Plain]

NewCacheItem(key, lifeSpan) ==
    [key |-> key, lifeSpan |-> lifeSpan, createdOn |-> now, accessedOn |-> now,
     accessCount |-> 0, aboutToExpire |-> <<>>, keepAlives |-> 0, data |-> Plain]

Allocated == {i \in ItemIds : heap[i] # NoItem}
NextId == Cardinality(Allocated) + 1

NoKeys == [k \in Keys |-> 0]

NilTimer == [state |-> "nil", at |-> 0]

\* A stack frame: the function, the place in it, and its local variables.
\* flushedOver: a Flush replaced table.items since the frame looked at it.
NoFrame == [fn |-> "", pc |-> "", key |-> "", item |-> 0, cbs |-> <<>>, i |-> 0,
            expDur |-> 0, tnow |-> 0, smallest |-> 0, todo |-> {}, maybe |-> {},
            flushedOver |-> FALSE, snap |-> NoKeys, accessedOn |-> 0,
            start |-> NoKeys, kind |-> ""]

Top(t) == stack[t][Len(stack[t])]
Idle(t) == stack[t] = <<>>
Running(t) == ~Idle(t)
At(t, fn, pc) == Running(t) /\ Top(t).fn = fn /\ Top(t).pc = pc

SetTop(s, f) == [s EXCEPT ![Len(s)] = f]
Pop(s) == SubSeq(s, 1, Len(s) - 1)
Push(s, f) == Append(s, f)

\* Keys are interchangeable: the first key a client adds is k1.
FirstKey(k) == k = "k1" \/ \E i \in Allocated : heap[i].key = "k1"

\* A client goroutine starts a call: idle goroutines are interchangeable, the
\* lowest one takes it.
Starts(t) ==
    /\ t \in Procs /\ Idle(t) /\ ops < budget
    /\ \A u \in Procs : u < t => Running(u)

\* ------------------------------------------------------------------ locks
\* sync.RWMutex of the table.  Read locks of the table are held inside one
\* step, except by Foreach, which holds one from its first frame to its
\* return: the readers are the goroutines inside Foreach.
TableReaders == {u \in Threads : stack[u] # <<>> /\ stack[u][1].fn = "Foreach"}

\* A write lock that does not wait for the readers.
TableFreeOfWriters == tableW = 0

\* table.Lock() can be taken: no writer and no reader holds the lock.
TableFree == tableW = 0 /\ TableReaders = {}

\* table.RLock() can be taken: no writer holds the lock.
TableCanRLock == tableW = 0

\* sync.RWMutex of an item.  Write locks of an item are only held inside one
\* step (KeepAlive, AddAboutToExpireCallback); read locks are held by
\* deleteInternal across the about-to-expire callbacks.
ItemCanLock(i) == \A u \in Threads : itemR[i][u] = 0

HoldsLock(t) == tableW = t \/ \E i \in ItemIds : itemR[i][t] > 0

\* ----------------------------------------------------------- map iteration
\* A `for range` over table.items that is suspended while another goroutine
\* inserts or deletes: a deleted entry not yet reached is not produced, an
\* inserted entry may be produced or skipped.
Ranging(f) == f.fn = "expirationCheck" /\ f.pc = "loop" /\ ~f.flushedOver

IterDelete(f, k) ==
    IF Ranging(f) THEN [f EXCEPT !.todo = @ \ {k}, !.maybe = @ \ {k}] ELSE f

IterInsert(f, k) ==
    IF Ranging(f) /\ k \notin f.todo THEN [f EXCEPT !.maybe = @ \cup {k}] ELSE f

\* Flush replaces table.items by a new map: a suspended range keeps iterating
\* the old map object, which nobody changes any more.
IterFlush(f) ==
    IF Ranging(f) THEN [f EXCEPT !.flushedOver = TRUE, !.snap = items]
    ELSE IF f.fn = "deleteInternal" THEN [f EXCEPT !.flushedOver = TRUE]
    ELSE f

OnDelete(stk, k) ==
    [u \in Threads |-> [n \in 1..Len(stk[u]) |-> IterDelete(stk[u][n], k)]]

OnInsert(stk, k) ==
    [u \in Threads |-> [n \in 1..Len(stk[u]) |-> IterInsert(stk[u][n], k)]]

OnFlush(stk) ==
    [u \in Threads |-> [n \in 1..Len(stk[u]) |-> IterFlush(stk[u][n])]]

\* ----------------------------------------------------------------- timers
PendingTimers ==
    (IF cleanupTimer.state = "pending" THEN 1 ELSE 0) + Len(orphanTimers)

\* cleanupTimer.Stop()
StopTimer(tm) == IF tm.state = "pending" THEN [state |-> "stopped", at |-> 0] ELSE tm

RECURSIVE SortedInsert(_, _)
SortedInsert(s, x) ==
    IF s = <<>> THEN <<x>>
    ELSE IF x <= Head(s) THEN <<x>> \o s
    ELSE <<Head(s)>> \o SortedInsert(Tail(s), x)

\* ------------------------------------------------------------ ghost state
\* NotFoundAdd calls on a key since the key was last absent with no plain
\* Add on it: how many returned true, whose item, and whether one returned
\* false.
NoRace == [on |-> TRUE, wins |-> 0, winner |-> 0, lost |-> FALSE]
RaceWon(k, id) == [race EXCEPT ![k].wins = @ + 1, ![k].winner = id]
RaceLost(k) == [race EXCEPT ![k].lost = TRUE]
RaceRemoved(k) == [race EXCEPT ![k] = NoRace]
RaceAdded(k) == [race EXCEPT ![k] = [NoRace EXCEPT !.on = FALSE]]

\* A call and what it returns: the item, the error, the boolean or the list;
\* in the history, also the goroutine, and the callback registered or invoked.
NoRet == [t |-> 0, fn |-> "", key |-> "", n |-> 0, item |-> 0, err |-> "", ok |-> FALSE,
          list |-> <<>>, cb |-> ""]
NoneReturned == [u \in Threads |-> NoRet]
Created == <<[NoRet EXCEPT !.fn = "Cache"]>>

results == <<ret, hist>>

\* Goroutine t, whose stack becomes stk, returns v to its caller: recorded
\* when the caller is the client.
Returns(t, stk, v) ==
    /\ ret' = IF ret = <<>> \/ stk # <<>> THEN ret ELSE [ret EXCEPT ![t] = v]
    /\ hist' = IF hist = <<>> \/ stk # <<>> THEN hist
               ELSE Append(hist, [v EXCEPT !.t = t])

\* What goroutine t does inside a call, for the history: deleteInternal finds
\* the item to remove ("deleteInternal"), a callback is invoked ("callback"),
\* the sweep has removed an item ("expirationCheck").
Logs(t, fn, k, i, c) ==
    /\ hist' = IF hist = <<>> THEN hist
               ELSE Append(hist, [NoRet EXCEPT !.t = t, !.fn = fn, !.key = k,
                                               !.item = i, !.cb = c])
    /\ UNCHANGED ret

\* return item (Add), return true (NotFoundAdd)
AddResult(f) ==
    IF f.fn = "Add" THEN [NoRet EXCEPT !.fn = "Add", !.key = f.key, !.item = f.item]
    ELSE [NoRet EXCEPT !.fn = "NotFoundAdd", !.key = f.key, !.item = f.item, !.ok = TRUE]

\* The table as Cache(name) creates it, at the time the run starts.
NewCacheTable ==
    /\ registry = NoTables
    /\ aSet = NewSet
    /\ now = 0
    /\ items = NoKeys
    /\ heap = [i \in ItemIds |-> NoItem]
    /\ cleanupTimer = NilTimer
    /\ orphanTimers = <<>>
    /\ cleanupInterval = 0
    /\ addedItem = <<>>
    /\ aboutToDeleteItem = <<>>
    /\ tableW = 0
    /\ itemR = [i \in ItemIds |-> [u \in Threads |-> 0]]
    /\ stack = [u \in Threads |-> <<>>]
    /\ ops = 0
    /\ race = [k \in Keys |-> NoRace]
    /\ quietSinceFlush = FALSE
    /\ loadData = "nil"

\* The runs that do not record what the calls return.
Unrecorded == ret = <<>> /\ hist = <<>>

Init == NewCacheTable /\ horizon = MaxTime /\ budget = MaxOps /\ Unrecorded

\* The runs with callbacks are followed for a shorter time.
InitCallbacks ==
    NewCacheTable /\ horizon = CallbackTime /\ budget = MaxOps /\ Unrecorded

\* The runs that record what the last call of each goroutine returned.
InitResults ==
    /\ NewCacheTable /\ horizon = MaxTime /\ budget = MaxOps
    /\ ret = NoneReturned /\ hist = <<>>

\* The runs of one client, calling MaxCalls times, that record every call
\* that returned.
InitSequential ==
    /\ NewCacheTable /\ horizon = CallbackTime /\ budget = MaxCalls
    /\ ret = NoneReturned /\ hist = Created

\* ------------------------------------------------------------- returning
\* The stack after the top call returns: an Add or NotFoundAdd whose last
\* statement was the call of expirationCheck returns with it.
ReturnTo(s) ==
    IF Len(s) >= 2 /\ s[Len(s) - 1].pc = "return" THEN SubSeq(s, 1, Len(s) - 2)
    ELSE Pop(s)

\* ------------------------------------------------------------------- Add
\* Add, up to table.Lock(): the item is built before the lock is taken.
AddCall(t, k, d) ==
    /\ Starts(t) /\ FirstKey(k) /\ NextId <= MaxItems
    /\ heap' = [heap EXCEPT ![NextId] = NewCacheItem(k, d)]
    /\ stack' = [stack EXCEPT ![t] = <<[NoFrame EXCEPT !.fn = "Add", !.pc = "lock",
                                            !.key = k, !.item = NextId]>>]
    /\ ops' = ops + 1
    /\ UNCHANGED <<horizon, budget, registry, aSet, loadData, results, now, items, timerVars, cleanupInterval, queueVars, lockVars, race,
                   quietSinceFlush>>

\* An addInternal that does not store the item.
AddInsertInvisible(t) ==
    /\ At(t, "Add", "lock")
    /\ TableFree
    /\ stack' = [stack EXCEPT ![t] = SetTop(@, [Top(t) EXCEPT !.pc = "callbacks",
                     !.expDur = cleanupInterval, !.cbs = addedItem, !.i = 1])]
    /\ UNCHANGED <<horizon, budget, registry, aSet, loadData, results, now, items, heap, timerVars,
                   cleanupInterval, queueVars, lockVars, ops, race, quietSinceFlush>>

\* An addInternal that leaves a cached key with the item it has.
AddInsertKeepsOld(t) ==
    /\ At(t, "Add", "lock")
    /\ TableFree
    /\ LET f == Top(t)
           ins == IF items[f.key] = 0 THEN OnInsert(stack, f.key) ELSE stack
       IN /\ items' = IF items[f.key] = 0 THEN [items EXCEPT ![f.key] = f.item] ELSE items
          /\ stack' = [ins EXCEPT ![t] = SetTop(@, [f EXCEPT !.pc = "callbacks",
                                   !.expDur = cleanupInterval, !.cbs = addedItem, !.i = 1])]
          /\ race' = RaceAdded(f.key)
    /\ quietSinceFlush' = FALSE
    /\ UNCHANGED <<horizon, budget, registry, aSet, loadData, results, now, heap, timerVars,
                   cleanupInterval, queueVars, lockVars, ops>>

\* table.Lock() of Add and the locked part of addInternal, to table.Unlock().
AddInsert(t) ==
    /\ At(t, "Add", "lock")
    /\ TableFree
    /\ LET f == Top(t)
           ins == IF items[f.key] = 0 THEN OnInsert(stack, f.key) ELSE stack
       IN /\ items' = [items EXCEPT ![f.key] = f.item]
          /\ stack' = [ins EXCEPT ![t] = SetTop(@, [f EXCEPT !.pc = "callbacks",
                                   !.expDur = cleanupInterval, !.cbs = addedItem, !.i = 1])]
          /\ race' = RaceAdded(f.key)
    /\ quietSinceFlush' = FALSE
    /\ UNCHANGED <<horizon, budget, registry, aSet, loadData, results, now, heap, timerVars, cleanupInterval, queueVars, lockVars, ops>>

\* An addInternal that runs expirationCheck only when cleanupInterval is 0.
NeedsCheckUnscheduled(lifeSpan, expDur) == lifeSpan > 0 /\ expDur = 0

\* The condition of addInternal to run expirationCheck.
NeedsCheck(lifeSpan, expDur) == lifeSpan > 0 /\ (expDur = 0 \/ lifeSpan < expDur)

\* NotFoundAdd without its check.
CachedNever(k) == FALSE

\* The check of NotFoundAdd under the table lock: is the key cached?
Cached(k) == items[k] # 0

\* NotFoundAdd: one critical section from table.Lock() to the table.Unlock()
\* of its early return, or of addInternal.
NotFoundAdd(t, k, d) ==
    /\ Starts(t) /\ FirstKey(k)
    /\ TableFree
    /\ ops' = ops + 1
    /\ IF Cached(k)
       THEN /\ race' = RaceLost(k)
            /\ Returns(t, <<>>, [NoRet EXCEPT !.fn = "NotFoundAdd", !.key = k])
            /\ UNCHANGED <<items, heap, stack, quietSinceFlush>>
       ELSE /\ NextId <= MaxItems
            /\ heap' = [heap EXCEPT ![NextId] = NewCacheItem(k, d)]
            /\ items' = [items EXCEPT ![k] = NextId]
            /\ stack' = [OnInsert(stack, k) EXCEPT ![t] =
                   <<[NoFrame EXCEPT !.fn = "NotFoundAdd", !.pc = "callbacks", !.key = k,
                         !.item = NextId, !.expDur = cleanupInterval,
                         !.cbs = addedItem, !.i = 1]>>]
            /\ race' = RaceWon(k, NextId)
            /\ quietSinceFlush' = FALSE
            /\ UNCHANGED results
    /\ UNCHANGED <<horizon, budget, registry, aSet, loadData, now, timerVars, cleanupInterval, queueVars, lockVars>>

CallbackFrame(kind, item, key) ==
    [NoFrame EXCEPT !.fn = "callback", !.pc = "enter", !.kind = kind, !.item = item,
                    !.key = key]

\* addInternal after table.Unlock(): the added-item callbacks, one per step,
\* then the decision to run expirationCheck, then the return.
AddedCallbacks(t) ==
    /\ Running(t) /\ Top(t).fn \in {"Add", "NotFoundAdd"} /\ Top(t).pc = "callbacks"
    /\ LET f == Top(t)
       IN IF f.i <= Len(f.cbs)
          THEN /\ stack' = [stack EXCEPT ![t] =
                      Push(SetTop(@, [f EXCEPT !.i = @ + 1]),
                           CallbackFrame(f.cbs[f.i], f.item, f.key))]
               /\ Logs(t, "callback", f.key, f.item, f.cbs[f.i])
          ELSE IF NeedsCheck(heap[f.item].lifeSpan, f.expDur)
          THEN /\ stack' = [stack EXCEPT ![t] =
                      Push(SetTop(@, [f EXCEPT !.pc = "return"]),
                           [NoFrame EXCEPT !.fn = "expirationCheck", !.pc = "lock"])]
               /\ UNCHANGED results
          ELSE /\ stack' = [stack EXCEPT ![t] = Pop(@)]
               /\ Returns(t, Pop(stack[t]), AddResult(f))
    /\ UNCHANGED <<horizon, budget, registry, aSet, loadData, now, items, heap, timerVars, cleanupInterval, queueVars, lockVars,
                   ops, race, quietSinceFlush>>

\* -------------------------------------------------------- expirationCheck
\* table.Lock(), cleanupTimer.Stop(), now := time.Now(), and the start of
\* the range over table.items.
ExpirationLock(t) ==
    /\ At(t, "expirationCheck", "lock")
    /\ TableFree
    /\ tableW' = t
    /\ cleanupTimer' = StopTimer(cleanupTimer)
    /\ stack' = [stack EXCEPT ![t] = SetTop(@, [Top(t) EXCEPT !.pc = "loop",
                     !.tnow = now, !.smallest = 0,
                     !.todo = {k \in Keys : items[k] # 0}, !.maybe = {},
                     !.start = items])]
    /\ UNCHANGED <<horizon, budget, registry, aSet, loadData, results, now, items, heap, orphanTimers, cleanupInterval, queueVars, itemR,
                   ops, race, quietSinceFlush>>

\* The comparison with > for >=.
ExpiredStrict(tnow, accessedOn, lifeSpan) == tnow - accessedOn > lifeSpan

\* now.Sub(accessedOn) >= lifeSpan
Expired(tnow, accessedOn, lifeSpan) == tnow - accessedOn >= lifeSpan

\* lifeSpan - now.Sub(accessedOn), kept when it is the smallest so far
Smallest(smallest, tnow, accessedOn, lifeSpan) ==
    IF smallest = 0 \/ lifeSpan - (tnow - accessedOn) < smallest
    THEN lifeSpan - (tnow - accessedOn)
    ELSE smallest

\* One iteration of the range: the item's lifeSpan and accessedOn are read
\* under its read lock; an item over its life span is handed to
\* deleteInternal, whose lookup is in the same critical section and which
\* then unlocks the table for its callbacks.
ExpirationLoop(t) ==
    /\ At(t, "expirationCheck", "loop")
    /\ tableW = t
    /\ \E k \in Top(t).todo \cup Top(t).maybe :
         LET f == Top(t)
             id == IF f.flushedOver THEN f.snap[k] ELSE items[k]
             lifeSpan == heap[id].lifeSpan
             accessedOn == heap[id].accessedOn
             left == [f EXCEPT !.todo = @ \ {k}, !.maybe = @ \ {k}]
             r == items[k]
         IN IF lifeSpan = 0
            THEN /\ stack' = [stack EXCEPT ![t] = SetTop(@, left)]
                 /\ UNCHANGED <<tableW, results>>
            ELSE IF Expired(f.tnow, accessedOn, lifeSpan)
            THEN IF r = 0
                 THEN /\ stack' = [stack EXCEPT ![t] = SetTop(@, left)]
                      /\ UNCHANGED <<tableW, results>>
                 ELSE /\ stack' = [stack EXCEPT ![t] =
                             Push(SetTop(@, left),
                                  [NoFrame EXCEPT !.fn = "deleteInternal",
                                      !.pc = "aboutToDelete", !.key = k, !.item = r,
                                      !.cbs = aboutToDeleteItem, !.i = 1,
                                      !.accessedOn = accessedOn])]
                      /\ tableW' = 0
                      /\ Logs(t, "deleteInternal", k, r, "")
            ELSE /\ stack' = [stack EXCEPT ![t] = SetTop(@,
                        [left EXCEPT !.smallest =
                            Smallest(@, f.tnow, accessedOn, lifeSpan)])]
                 /\ UNCHANGED <<tableW, results>>
    /\ UNCHANGED <<horizon, budget, registry, aSet, loadData, now, items, heap, timerVars, cleanupInterval, queueVars, itemR, ops,
                   race, quietSinceFlush>>

\* time.AfterFunc(d, ...): a new timer, which the table points to from now
\* on; the timer it pointed to is not stopped here.
ArmTimer(d) ==
    /\ cleanupTimer' = [state |-> "pending", at |-> now + d]
    /\ orphanTimers' = IF cleanupTimer.state = "pending"
                       THEN SortedInsert(orphanTimers, cleanupTimer.at)
                       ELSE orphanTimers

\* An expirationCheck that returns without table.Unlock().
ExpirationEndLocked(t) ==
    /\ At(t, "expirationCheck", "loop")
    /\ tableW = t
    /\ Top(t).todo = {}
    /\ cleanupInterval' = Top(t).smallest
    /\ IF Top(t).smallest > 0
       THEN ArmTimer(Top(t).smallest)
       ELSE UNCHANGED timerVars
    /\ stack' = [stack EXCEPT ![t] = ReturnTo(@)]
    /\ IF ReturnTo(stack[t]) = Pop(stack[t])
       THEN UNCHANGED results
       ELSE Returns(t, ReturnTo(stack[t]), AddResult(stack[t][Len(stack[t]) - 1]))
    /\ UNCHANGED <<horizon, budget, registry, aSet, loadData, now, items, heap, queueVars,
                   lockVars, ops, race, quietSinceFlush>>

\* The end of the range (entries inserted meanwhile may be skipped): set
\* cleanupInterval, arm the timer, table.Unlock() and return.
ExpirationEnd(t) ==
    /\ At(t, "expirationCheck", "loop")
    /\ tableW = t
    /\ Top(t).todo = {}
    /\ cleanupInterval' = Top(t).smallest
    /\ IF Top(t).smallest > 0
       THEN ArmTimer(Top(t).smallest)
       ELSE UNCHANGED timerVars
    /\ tableW' = 0
    /\ stack' = [stack EXCEPT ![t] = ReturnTo(@)]
    /\ IF ReturnTo(stack[t]) = Pop(stack[t])
       THEN UNCHANGED results
       ELSE Returns(t, ReturnTo(stack[t]), AddResult(stack[t][Len(stack[t]) - 1]))
    /\ UNCHANGED <<horizon, budget, registry, aSet, loadData, now, items, heap, queueVars, itemR, ops, race, quietSinceFlush>>

\* ----------------------------------------------------------------- Delete
\* A miss that returns no item and no error.
DeleteMissNoError(k) == [NoRet EXCEPT !.fn = "Delete", !.key = k]

\* deleteInternal on a key that is not in table.items: return nil, ErrKeyNotFound
DeleteMiss(k) == [NoRet EXCEPT !.fn = "Delete", !.key = k, !.err = "ErrKeyNotFound"]

\* Delete: table.Lock() and the lookup of deleteInternal; an absent key
\* returns ErrKeyNotFound through the deferred table.Unlock(), a present one
\* has the table unlocked for the callbacks.
Delete(t, k) ==
    /\ Starts(t)
    /\ TableFree
    /\ ops' = ops + 1
    /\ IF items[k] = 0
       THEN /\ Returns(t, <<>>, DeleteMiss(k))
            /\ UNCHANGED stack
       ELSE /\ stack' = [stack EXCEPT ![t] =
                   <<[NoFrame EXCEPT !.fn = "Delete", !.pc = "deferred", !.key = k],
                     [NoFrame EXCEPT !.fn = "deleteInternal", !.pc = "aboutToDelete",
                         !.key = k, !.item = items[k], !.cbs = aboutToDeleteItem,
                         !.i = 1, !.accessedOn = heap[items[k]].accessedOn]>>]
            /\ Logs(t, "deleteInternal", k, items[k], "")
    /\ UNCHANGED <<horizon, budget, registry, aSet, loadData, now, items, heap, timerVars, cleanupInterval, queueVars, lockVars,
                   race, quietSinceFlush>>

\* deleteInternal after table.Unlock(): the about-to-delete callbacks, one
\* per step, then r.RLock().
AboutToDeleteCallbacks(t) ==
    /\ At(t, "deleteInternal", "aboutToDelete")
    /\ LET f == Top(t)
       IN IF f.i <= Len(f.cbs)
          THEN /\ stack' = [stack EXCEPT ![t] =
                      Push(SetTop(@, [f EXCEPT !.i = @ + 1]),
                           CallbackFrame(f.cbs[f.i], f.item, f.key))]
               /\ Logs(t, "callback", f.key, f.item, f.cbs[f.i])
               /\ UNCHANGED itemR
          ELSE /\ itemR' = [itemR EXCEPT ![f.item][t] = @ + 1]
               /\ stack' = [stack EXCEPT ![t] = SetTop(@, [f EXCEPT
                      !.pc = "aboutToExpire", !.cbs = heap[f.item].aboutToExpire,
                      !.i = 1])]
               /\ UNCHANGED results
    /\ UNCHANGED <<horizon, budget, registry, aSet, loadData, now, items, heap, timerVars, cleanupInterval, queueVars, tableW, ops,
                   race, quietSinceFlush>>

\* deleteInternal that goes past the item's callbacks without invoking them.
AboutToExpireSkipped(t) ==
    /\ At(t, "deleteInternal", "aboutToExpire")
    /\ Top(t).i <= Len(Top(t).cbs)
    /\ stack' = [stack EXCEPT ![t] = SetTop(@, [Top(t) EXCEPT !.i = Len(Top(t).cbs) + 1])]
    /\ UNCHANGED <<horizon, budget, registry, aSet, loadData, results, now, items, heap, timerVars,
                   cleanupInterval, queueVars, lockVars, ops, race, quietSinceFlush>>

\* The about-to-expire callbacks of the item, one per step, run between
\* r.RLock() and the deferred r.RUnlock().
AboutToExpireCallbacks(t) ==
    /\ At(t, "deleteInternal", "aboutToExpire")
    /\ Top(t).i <= Len(Top(t).cbs)
    /\ LET f == Top(t)
       IN /\ stack' = [stack EXCEPT ![t] =
                 Push(SetTop(@, [f EXCEPT !.i = @ + 1]),
                      CallbackFrame(f.cbs[f.i], f.item, f.key))]
          /\ Logs(t, "callback", f.key, f.item, f.cbs[f.i])
    /\ UNCHANGED <<horizon, budget, registry, aSet, loadData, now, items, heap, timerVars, cleanupInterval, queueVars, lockVars,
                   ops, race, quietSinceFlush>>

\* A removal that leaves the key in the map.
DeleteKeyKept(k) == items

\* delete(table.items, key)
DeleteKey(k) == [items EXCEPT ![k] = 0]

\* table.Lock(), delete(table.items, key), return r: the deferred r.RUnlock()
\* runs; Delete then unlocks the table, expirationCheck goes on with it locked.
DeleteRemove(t) ==
    /\ At(t, "deleteInternal", "aboutToExpire")
    /\ Top(t).i > Len(Top(t).cbs)
    /\ TableFree
    /\ LET f == Top(t)
           caller == stack[t][Len(stack[t]) - 1]
           del == OnDelete(stack, f.key)
       IN /\ items' = DeleteKey(f.key)
          /\ itemR' = [itemR EXCEPT ![f.item][t] = @ - 1]
          /\ race' = IF items[f.key] # 0 THEN RaceRemoved(f.key) ELSE race
          /\ IF caller.fn = "Delete"
             THEN /\ stack' = [del EXCEPT ![t] = SubSeq(@, 1, Len(@) - 2)]
                  /\ Returns(t, SubSeq(stack[t], 1, Len(stack[t]) - 2),
                             [NoRet EXCEPT !.fn = "Delete", !.key = f.key,
                                           !.item = f.item])
                  /\ UNCHANGED tableW
             ELSE /\ stack' = [del EXCEPT ![t] = Pop(@)]
                  /\ tableW' = t
                  /\ Logs(t, "expirationCheck", f.key, f.item, "")
    /\ UNCHANGED <<horizon, budget, registry, aSet, loadData, now, heap, timerVars, cleanupInterval, queueVars, ops, quietSinceFlush>>

\* --------------------------------------------------------------- KeepAlive
\* A KeepAlive that counts the access twice.
TouchTwice(i) == [heap EXCEPT ![i].accessedOn = now, ![i].accessCount = @ + 2]

\* A KeepAlive that writes back the count of a first access.
TouchLostUpdate(i) == [heap EXCEPT ![i].accessedOn = now, ![i].accessCount = 1]

\* item.Lock(); accessedOn = time.Now(); accessCount++; item.Unlock()
Touch(i) == [heap EXCEPT ![i].accessedOn = now, ![i].accessCount = @ + 1]

\* History: one more call of item.KeepAlive() has returned.
KeptAlive(h, i) == [h EXCEPT ![i].keepAlives = @ + 1]

\* Count: len(table.items) under the table's read lock.
Count == Cardinality({k \in Keys : items[k] # 0})

\* The items a client can hold a pointer to: those a table has handed out.
Published(i) ==
    /\ i \in Allocated
    /\ \A u \in Threads : \A n \in 1..Len(stack[u]) :
          ~(stack[u][n].fn = "Add" /\ stack[u][n].pc = "lock" /\ stack[u][n].item = i)

KeepAlive(t, i) ==
    /\ Starts(t)
    /\ Published(i)
    /\ ItemCanLock(i)
    /\ heap' = KeptAlive(Touch(i), i)
    /\ ops' = ops + 1
    /\ UNCHANGED <<horizon, budget, registry, aSet, loadData, results, now, items, timerVars, cleanupInterval, queueVars, lockVars, stack,
                   race, quietSinceFlush>>

\* ------------------------------------------------------------------- Value
\* Value, the critical section under table.RLock(): the lookup and the read
\* of table.loadData; a miss without a loader returns ErrKeyNotFound.
Value(t, k) ==
    /\ Starts(t)
    /\ TableCanRLock
    /\ ops' = ops + 1
    /\ IF items[k] # 0
       THEN /\ stack' = [stack EXCEPT ![t] =
                   <<[NoFrame EXCEPT !.fn = "Value", !.pc = "KeepAlive", !.key = k,
                         !.item = items[k]]>>]
            /\ UNCHANGED results
       ELSE IF loadData # "nil"
       THEN /\ stack' = [stack EXCEPT ![t] =
                   <<[NoFrame EXCEPT !.fn = "Value", !.pc = "loadData", !.key = k,
                         !.kind = loadData]>>]
            /\ UNCHANGED results
       ELSE /\ Returns(t, <<>>, [NoRet EXCEPT !.fn = "Value", !.key = k,
                                            !.err = "ErrKeyNotFound"])
            /\ UNCHANGED stack
    /\ UNCHANGED <<horizon, budget, registry, aSet, loadData, now, items, heap, timerVars, cleanupInterval, queueVars, lockVars,
                   race, quietSinceFlush>>

\* r.KeepAlive(); return r, nil
ValueKeepAlive(t) ==
    /\ At(t, "Value", "KeepAlive")
    /\ ItemCanLock(Top(t).item)
    /\ heap' = KeptAlive(Touch(Top(t).item), Top(t).item)
    /\ stack' = [stack EXCEPT ![t] = Pop(@)]
    /\ Returns(t, Pop(stack[t]), [NoRet EXCEPT !.fn = "Value", !.key = Top(t).key,
                                                !.item = Top(t).item])
    /\ UNCHANGED <<horizon, budget, registry, aSet, loadData, now, items, timerVars, cleanupInterval, queueVars, lockVars, ops,
                   race, quietSinceFlush>>

\* A Value that takes the nil of the loader for an item of life span 0.
ValueLoadNil(t) ==
    /\ At(t, "Value", "loadData")
    /\ NextId + 1 <= MaxItems
    /\ heap' = [heap EXCEPT ![NextId] = NewCacheItem(Top(t).key, 0),
                            ![NextId + 1] = NewCacheItem(Top(t).key, 0)]
    /\ stack' = [stack EXCEPT ![t] =
           <<[Top(t) EXCEPT !.pc = "loaded", !.item = NextId],
             [NoFrame EXCEPT !.fn = "Add", !.pc = "lock", !.key = Top(t).key,
                             !.item = NextId + 1]>>]
    /\ UNCHANGED <<horizon, budget, registry, aSet, loadData, results, now, items, timerVars,
                   cleanupInterval, queueVars, lockVars, ops, race, quietSinceFlush>>

\* item := loadData(key, args...), outside every lock. A loader that returns
\* nil ends the call with ErrKeyNotFoundOrLoadable; for one that returns an
\* item, table.Add(key, item.lifeSpan, item.data) starts, and Add builds the
\* item it will store with NewCacheItem before it takes the table lock.
ValueLoad(t) ==
    /\ At(t, "Value", "loadData")
    /\ LET f == Top(t)
       IN IF f.kind = "LoadNil"
          THEN /\ stack' = [stack EXCEPT ![t] = Pop(@)]
               /\ Returns(t, Pop(stack[t]),
                          [NoRet EXCEPT !.fn = "Value", !.key = f.key,
                                        !.err = "ErrKeyNotFoundOrLoadable"])
               /\ UNCHANGED heap
          ELSE /\ NextId + 1 <= MaxItems
               /\ \E d \in LifeSpans :
                    heap' = [heap EXCEPT ![NextId] = NewCacheItem(f.key, d),
                                         ![NextId + 1] = NewCacheItem(f.key, d)]
               /\ stack' = [stack EXCEPT ![t] =
                      <<[f EXCEPT !.pc = "loaded", !.item = NextId],
                        [NoFrame EXCEPT !.fn = "Add", !.pc = "lock", !.key = f.key,
                                        !.item = NextId + 1]>>]
               /\ UNCHANGED results
    /\ UNCHANGED <<horizon, budget, registry, aSet, loadData, now, items, timerVars, cleanupInterval, queueVars, lockVars, ops,
                   race, quietSinceFlush>>

\* return item, nil: the item the loader returned.
ValueLoaded(t) ==
    /\ At(t, "Value", "loaded")
    /\ stack' = [stack EXCEPT ![t] = Pop(@)]
    /\ Returns(t, Pop(stack[t]), [NoRet EXCEPT !.fn = "Value", !.key = Top(t).key,
                                                !.item = Top(t).item])
    /\ UNCHANGED <<horizon, budget, registry, aSet, loadData, now, items, heap, timerVars, cleanupInterval, queueVars, lockVars,
                   ops, race, quietSinceFlush>>

\* The loaders a client installs: one that returns nil, one that returns
\* NewCacheItem(key, lifeSpan, data).
Loaders == {"LoadNil", "LoadItem"}

\* SetDataLoader: table.loadData = f under the table lock.
SetDataLoader(t, f) ==
    /\ Starts(t)
    /\ TableFree
    /\ loadData' = f
    /\ ops' = ops + 1
    /\ Returns(t, <<>>, [NoRet EXCEPT !.fn = "SetDataLoader", !.key = f])
    /\ UNCHANGED <<horizon, budget, registry, aSet, now, items, heap, timerVars, cleanupInterval,
                   queueVars, lockVars, stack, race, quietSinceFlush>>

\* ------------------------------------------------------------------ Exists
\* An Exists that keeps the item it finds alive.
ExistsKeepsAlive(t, k) ==
    /\ Starts(t)
    /\ TableCanRLock
    /\ ops' = ops + 1
    /\ Returns(t, <<>>, [NoRet EXCEPT !.fn = "Exists", !.key = k, !.ok = (items[k] # 0)])
    /\ heap' = IF items[k] # 0 THEN Touch(items[k]) ELSE heap
    /\ UNCHANGED <<horizon, budget, registry, aSet, loadData, now, items, timerVars, cleanupInterval,
                   queueVars, lockVars, stack, race, quietSinceFlush>>

\* Exists: the lookup under table.RLock(); return ok
Exists(t, k) ==
    /\ Starts(t)
    /\ TableCanRLock
    /\ ops' = ops + 1
    /\ Returns(t, <<>>, [NoRet EXCEPT !.fn = "Exists", !.key = k, !.ok = (items[k] # 0)])
    /\ UNCHANGED <<horizon, budget, registry, aSet, loadData, now, items, heap, timerVars, cleanupInterval,
                   queueVars, lockVars, stack, race, quietSinceFlush>>

\* ------------------------------------------------------------ MostAccessed
\* A Less that sorts by ascending access count.
LessAscending(ci, cj) == ci < cj

\* CacheItemPairList.Less: p[i].AccessCount > p[j].AccessCount
Less(ci, cj) == ci > cj

\* The counts a client asks MostAccessed for.
Counts == 0..(MaxItems + 1)

\* MostAccessed, under the table's read lock from the first statement to the
\* return: p holds one pair per key, with the accessCount read from the item
\* (without the item's lock); sort.Sort, which is not stable, leaves p in one
\* of the orders that agree with Less; the items of the first count pairs
\* are looked up and returned.
MostAccessed(t, count) ==
    /\ Starts(t)
    /\ TableCanRLock
    /\ ops' = ops + 1
    /\ LET cached == {k \in Keys : items[k] # 0}
           AccessCount == [k \in cached |-> heap[items[k]].accessCount]
       IN \E p \in [1..Cardinality(cached) -> cached] :
            /\ \A i, j \in DOMAIN p : i # j => p[i] # p[j]
            /\ \A i, j \in DOMAIN p : i < j => ~Less(AccessCount[p[j]], AccessCount[p[i]])
            /\ LET c == IF count < Len(p) THEN count ELSE Len(p)
                   r == [j \in 1..c |-> items[p[j]]]
               IN Returns(t, <<>>, [NoRet EXCEPT !.fn = "MostAccessed", !.n = count,
                                                 !.list = r])
    /\ UNCHANGED <<horizon, budget, registry, aSet, loadData, now, items, heap, timerVars, cleanupInterval,
                   queueVars, lockVars, stack, race, quietSinceFlush>>

\* ------------------------------------------------------------------- Flush
\* A Flush that also empties the queue of added-item callbacks.
FlushResets(t) ==
    /\ Starts(t)
    /\ TableFree
    /\ ops' = ops + 1
    /\ items' = NoKeys
    /\ cleanupInterval' = 0
    /\ cleanupTimer' = StopTimer(cleanupTimer)
    /\ stack' = OnFlush(stack)
    /\ race' = [k \in Keys |-> NoRace]
    /\ quietSinceFlush' = TRUE
    /\ addedItem' = <<>>
    /\ UNCHANGED <<horizon, budget, registry, aSet, loadData, results, now, heap, orphanTimers,
                   aboutToDeleteItem, lockVars>>

\* table.Lock(); table.items = make(...); table.cleanupInterval = 0;
\* table.cleanupTimer.Stop(); table.Unlock()
Flush(t) ==
    /\ Starts(t)
    /\ TableFree
    /\ ops' = ops + 1
    /\ items' = NoKeys
    /\ cleanupInterval' = 0
    /\ cleanupTimer' = StopTimer(cleanupTimer)
    /\ stack' = OnFlush(stack)
    /\ race' = [k \in Keys |-> NoRace]
    /\ quietSinceFlush' = TRUE
    /\ UNCHANGED <<horizon, budget, registry, aSet, loadData, results, now, heap, orphanTimers, queueVars, lockVars>>

\* ----------------------------------------------------------------- Foreach
\* What the function handed to Foreach does with a pair: nothing to the
\* table, or table.Add(key, 0, data).
Visitors == {"nop", "Add"}

\* table.RLock(); defer table.RUnlock(); the range starts over the entries
\* the map has, which no writer can change while the read lock is held.
Foreach(t) ==
    /\ Starts(t)
    /\ TableCanRLock
    /\ ops' = ops + 1
    /\ stack' = [stack EXCEPT ![t] =
           <<[NoFrame EXCEPT !.fn = "Foreach", !.pc = "range",
                             !.todo = {k \in Keys : items[k] # 0}, !.snap = items]>>]
    /\ UNCHANGED <<horizon, budget, registry, aSet, loadData, results, now, items, heap,
                   timerVars, cleanupInterval, queueVars, lockVars, race, quietSinceFlush>>

\* trans(k, v) for one entry of the range: a visitor that returns, or one
\* that calls Add, which builds its item and then waits for table.Lock().
ForeachVisit(t, k, v) ==
    /\ At(t, "Foreach", "range")
    /\ k \in Top(t).todo
    /\ IF v = "nop"
       THEN /\ stack' = [stack EXCEPT ![t] = SetTop(@, [Top(t) EXCEPT !.todo = @ \ {k}])]
            /\ UNCHANGED heap
       ELSE /\ NextId <= MaxItems
            /\ heap' = [heap EXCEPT ![NextId] = NewCacheItem(k, 0)]
            /\ stack' = [stack EXCEPT ![t] =
                   Push(@, [NoFrame EXCEPT !.fn = "Add", !.pc = "lock", !.key = k,
                                           !.item = NextId])]
    /\ UNCHANGED <<horizon, budget, registry, aSet, loadData, results, now, items, timerVars,
                   cleanupInterval, queueVars, lockVars, ops, race, quietSinceFlush>>

\* The range is over: the deferred table.RUnlock() and the return.
ForeachEnd(t) ==
    /\ At(t, "Foreach", "range")
    /\ Top(t).todo = {}
    /\ stack' = [stack EXCEPT ![t] = Pop(@)]
    /\ Returns(t, <<>>, [NoRet EXCEPT !.fn = "Foreach"])
    /\ UNCHANGED <<horizon, budget, registry, aSet, loadData, now, items, heap, timerVars,
                   cleanupInterval, queueVars, lockVars, ops, race, quietSinceFlush>>

\* ---------------------------------------------------------------- callbacks
\* What a call to register or remove callbacks records when it returns.
Registers(t, fn, i, c) == Returns(t, <<>>, [NoRet EXCEPT !.fn = fn, !.item = i, !.cb = c])

AddAddedItemCallback(t, c) ==
    /\ Starts(t)
    /\ TableFree
    /\ ops' = ops + 1
    /\ addedItem' = Append(addedItem, c)
    /\ Registers(t, "AddAddedItemCallback", 0, c)
    /\ UNCHANGED <<horizon, budget, registry, aSet, loadData, now, items, heap, timerVars, cleanupInterval, aboutToDeleteItem,
                   lockVars, stack, race, quietSinceFlush>>

AddAboutToDeleteItemCallback(t, c) ==
    /\ Starts(t)
    /\ TableFree
    /\ ops' = ops + 1
    /\ aboutToDeleteItem' = Append(aboutToDeleteItem, c)
    /\ Registers(t, "AddAboutToDeleteItemCallback", 0, c)
    /\ UNCHANGED <<horizon, budget, registry, aSet, loadData, now, items, heap, timerVars, cleanupInterval, addedItem, lockVars,
                   stack, race, quietSinceFlush>>

AddAboutToExpireCallback(t, i, c) ==
    /\ Starts(t)
    /\ Published(i)
    /\ ItemCanLock(i)
    /\ ops' = ops + 1
    /\ heap' = [heap EXCEPT ![i].aboutToExpire = Append(@, c)]
    /\ Registers(t, "AddAboutToExpireCallback", i, c)
    /\ UNCHANGED <<horizon, budget, registry, aSet, loadData, now, items, timerVars, cleanupInterval, queueVars, lockVars, stack,
                   race, quietSinceFlush>>

\* RemoveAddedItemCallbacks: table.addedItem = nil under the table lock.
RemoveAddedItemCallbacks(t) ==
    /\ Starts(t)
    /\ TableFree
    /\ ops' = ops + 1
    /\ addedItem' = <<>>
    /\ Registers(t, "RemoveAddedItemCallbacks", 0, "")
    /\ UNCHANGED <<horizon, budget, registry, aSet, loadData, now, items, heap, timerVars, cleanupInterval, aboutToDeleteItem,
                   lockVars, stack, race, quietSinceFlush>>

RemoveAboutToDeleteItemCallback(t) ==
    /\ Starts(t)
    /\ TableFree
    /\ ops' = ops + 1
    /\ aboutToDeleteItem' = <<>>
    /\ Registers(t, "RemoveAboutToDeleteItemCallback", 0, "")
    /\ UNCHANGED <<horizon, budget, registry, aSet, loadData, now, items, heap, timerVars, cleanupInterval, addedItem, lockVars,
                   stack, race, quietSinceFlush>>

\* RemoveAboutToExpireCallback: item.aboutToExpire = nil under the item lock.
RemoveAboutToExpireCallback(t, i) ==
    /\ Starts(t)
    /\ Published(i)
    /\ ItemCanLock(i)
    /\ ops' = ops + 1
    /\ heap' = [heap EXCEPT ![i].aboutToExpire = <<>>]
    /\ Registers(t, "RemoveAboutToExpireCallback", i, "")
    /\ UNCHANGED <<horizon, budget, registry, aSet, loadData, now, items, timerVars, cleanupInterval, queueVars, lockVars, stack,
                   race, quietSinceFlush>>

\* The frame of a Set...Callback call that is about to lock and append.
SetFrame(fn, i, c) == <<[NoFrame EXCEPT !.fn = fn, !.pc = "lock", !.item = i, !.kind = c]>>

\* A SetAddedItemCallback that keeps the callbacks registered before.
SetAddedItemCallbackKeeps(t, c) ==
    /\ Starts(t)
    /\ ops' = ops + 1
    /\ stack' = [stack EXCEPT ![t] = SetFrame("SetAddedItemCallback", 0, c)]
    /\ UNCHANGED <<horizon, budget, registry, aSet, loadData, results, now, items, heap, timerVars,
                   cleanupInterval, queueVars, lockVars, race, quietSinceFlush>>

\* SetAddedItemCallback up to table.Lock(): the queue's length is read without
\* a lock, and a queue that is not empty is emptied by RemoveAddedItemCallbacks.
SetAddedItemCallback(t, c) ==
    /\ Starts(t)
    /\ ops' = ops + 1
    /\ IF Len(addedItem) > 0 THEN TableFree /\ addedItem' = <<>> ELSE UNCHANGED addedItem
    /\ stack' = [stack EXCEPT ![t] = SetFrame("SetAddedItemCallback", 0, c)]
    /\ UNCHANGED <<horizon, budget, registry, aSet, loadData, results, now, items, heap, timerVars, cleanupInterval,
                   aboutToDeleteItem, lockVars, race, quietSinceFlush>>

SetAboutToDeleteItemCallback(t, c) ==
    /\ Starts(t)
    /\ ops' = ops + 1
    /\ IF Len(aboutToDeleteItem) > 0 THEN TableFree /\ aboutToDeleteItem' = <<>>
       ELSE UNCHANGED aboutToDeleteItem
    /\ stack' = [stack EXCEPT ![t] = SetFrame("SetAboutToDeleteItemCallback", 0, c)]
    /\ UNCHANGED <<horizon, budget, registry, aSet, loadData, results, now, items, heap, timerVars, cleanupInterval,
                   addedItem, lockVars, race, quietSinceFlush>>

\* SetAboutToExpireCallback up to item.Lock().
SetAboutToExpireCallback(t, i, c) ==
    /\ Starts(t)
    /\ Published(i)
    /\ ops' = ops + 1
    /\ IF Len(heap[i].aboutToExpire) > 0
       THEN ItemCanLock(i) /\ heap' = [heap EXCEPT ![i].aboutToExpire = <<>>]
       ELSE UNCHANGED heap
    /\ stack' = [stack EXCEPT ![t] = SetFrame("SetAboutToExpireCallback", i, c)]
    /\ UNCHANGED <<horizon, budget, registry, aSet, loadData, results, now, items, timerVars, cleanupInterval, queueVars,
                   lockVars, race, quietSinceFlush>>

\* The locked part of the three Set...Callback methods: append the callback
\* to the queue and return.
SetCallbackAppend(t) ==
    /\ Running(t) /\ Top(t).pc = "lock"
    /\ LET f == Top(t)
       IN /\ \/ /\ f.fn = "SetAddedItemCallback"
                /\ TableFree
                /\ addedItem' = Append(addedItem, f.kind)
                /\ UNCHANGED <<aboutToDeleteItem, heap>>
             \/ /\ f.fn = "SetAboutToDeleteItemCallback"
                /\ TableFree
                /\ aboutToDeleteItem' = Append(aboutToDeleteItem, f.kind)
                /\ UNCHANGED <<addedItem, heap>>
             \/ /\ f.fn = "SetAboutToExpireCallback"
                /\ ItemCanLock(f.item)
                /\ heap' = [heap EXCEPT ![f.item].aboutToExpire = Append(@, f.kind)]
                /\ UNCHANGED <<addedItem, aboutToDeleteItem>>
          /\ Registers(t, f.fn, f.item, f.kind)
    /\ stack' = [stack EXCEPT ![t] = Pop(@)]
    /\ UNCHANGED <<horizon, budget, registry, aSet, loadData, now, items, timerVars, cleanupInterval, lockVars, ops,
                   race, quietSinceFlush>>

\* A user callback that returns without calling the cache.
CallbackNop(t) ==
    /\ Running(t) /\ Top(t).fn = "callback" /\ Top(t).kind = "nop"
    /\ stack' = [stack EXCEPT ![t] = Pop(@)]
    /\ UNCHANGED <<horizon, budget, registry, aSet, loadData, results, now, items, heap, timerVars, cleanupInterval, queueVars, lockVars,
                   ops, race, quietSinceFlush>>

\* A user callback that calls KeepAlive on the item it was invoked for.
CallbackKeepAlive(t) ==
    /\ Running(t) /\ Top(t).fn = "callback" /\ Top(t).kind = "KeepAlive"
    /\ ItemCanLock(Top(t).item)
    /\ heap' = KeptAlive(Touch(Top(t).item), Top(t).item)
    /\ stack' = [stack EXCEPT ![t] = Pop(@)]
    /\ UNCHANGED <<horizon, budget, registry, aSet, loadData, results, now, items, timerVars, cleanupInterval, queueVars, lockVars, ops,
                   race, quietSinceFlush>>

\* -------------------------------------------------------------------- hash
\* HAdd, the section under table.Lock(): an absent key gets a new item whose
\* payload is a hash of the one pair, stored by addInternal, which goes on as
\* for Add; a cached item is updated after table.Unlock().
HAdd(t, k, d, h) ==
    /\ Starts(t) /\ FirstKey(k)
    /\ TableFree
    /\ ops' = ops + 1
    /\ IF items[k] = 0
       THEN /\ NextId <= MaxItems
            /\ heap' = [heap EXCEPT ![NextId] =
                   [NewCacheItem(k, d) EXCEPT !.data = [kind |-> "hash", hash |-> {h}]]]
            /\ items' = [items EXCEPT ![k] = NextId]
            /\ stack' = [OnInsert(stack, k) EXCEPT ![t] =
                   <<[NoFrame EXCEPT !.fn = "Add", !.pc = "callbacks", !.key = k,
                         !.item = NextId, !.expDur = cleanupInterval,
                         !.cbs = addedItem, !.i = 1]>>]
            /\ race' = RaceAdded(k)
            /\ quietSinceFlush' = FALSE
       ELSE /\ stack' = [stack EXCEPT ![t] =
                   <<[NoFrame EXCEPT !.fn = "HAdd", !.pc = "Lock", !.key = k,
                         !.item = items[k], !.kind = h]>>]
            /\ UNCHANGED <<items, heap, race, quietSinceFlush>>
    /\ UNCHANGED <<horizon, budget, registry, aSet, loadData, results, now, timerVars,
                   cleanupInterval, queueVars, lockVars>>

\* HAdd under item.Lock(): the pair is stored if the payload is a hash; the
\* item is returned in either case.
HAddLocked(t) ==
    /\ At(t, "HAdd", "Lock")
    /\ ItemCanLock(Top(t).item)
    /\ LET f == Top(t)
       IN /\ heap' = IF heap[f.item].data.kind = "hash"
                     THEN [heap EXCEPT ![f.item].data.hash = @ \cup {f.kind}]
                     ELSE heap
          /\ Returns(t, <<>>, [NoRet EXCEPT !.fn = "HAdd", !.key = f.key, !.item = f.item])
    /\ stack' = [stack EXCEPT ![t] = Pop(@)]
    /\ UNCHANGED <<horizon, budget, registry, aSet, loadData, now, items, timerVars,
                   cleanupInterval, queueVars, lockVars, ops, race, quietSinceFlush>>

\* HValue: the lookup under table.RLock(), the read of the payload without a
\* lock, and KeepAlive on a hit.  The type assertion has one result: on a
\* payload that is no hash it panics, which ends the program.
HValue(t, k, h) ==
    /\ Starts(t)
    /\ TableFree
    /\ ops' = ops + 1
    /\ LET i == items[k]
           r == [NoRet EXCEPT !.fn = "HValue", !.key = k, !.item = i]
       IN IF i = 0
          THEN /\ Returns(t, <<>>, [r EXCEPT !.err = "ErrKeyNotFound"])
               /\ UNCHANGED <<heap, stack>>
          ELSE IF heap[i].data.kind # "hash"
          THEN /\ Returns(t, <<>>, [r EXCEPT !.err = "panic"])
               /\ stack' = [stack EXCEPT ![t] = <<[NoFrame EXCEPT !.fn = "panic"]>>]
               /\ UNCHANGED heap
          ELSE IF h \notin heap[i].data.hash
          THEN /\ Returns(t, <<>>, [r EXCEPT !.err = "ErrKeyNotFound"])
               /\ UNCHANGED <<heap, stack>>
          ELSE /\ ItemCanLock(i)
               /\ heap' = KeptAlive(Touch(i), i)
               /\ Returns(t, <<>>, [r EXCEPT !.ok = TRUE])
               /\ UNCHANGED stack
    /\ UNCHANGED <<horizon, budget, registry, aSet, loadData, now, items, timerVars,
                   cleanupInterval, queueVars, lockVars, race, quietSinceFlush>>

\* HDelete: under table.RLock() and item.Lock().
HDelete(t, k, h) ==
    /\ Starts(t)
    /\ TableFree
    /\ ops' = ops + 1
    /\ LET i == items[k]
           r == [NoRet EXCEPT !.fn = "HDelete", !.key = k, !.item = i]
       IN IF i = 0
          THEN /\ Returns(t, <<>>, [r EXCEPT !.err = "ErrKeyNotFound"])
               /\ UNCHANGED heap
          ELSE /\ ItemCanLock(i)
               /\ IF heap[i].data.kind # "hash"
                  THEN /\ Returns(t, <<>>, [r EXCEPT !.err = "ErrKeyTypeNotHash"])
                       /\ UNCHANGED heap
                  ELSE /\ heap' = [heap EXCEPT ![i].data.hash = @ \ {h}]
                       /\ Returns(t, <<>>, r)
    /\ UNCHANGED <<horizon, budget, registry, aSet, loadData, now, items, timerVars,
                   cleanupInterval, queueVars, lockVars, stack, race, quietSinceFlush>>

\* ---------------------------------------------------------------- registry
\* Cache, the lookup under mutex.RLock(): a hit returns the table.
Cache(t, name) ==
    /\ Starts(t)
    /\ registry.writer = 0
    /\ ops' = ops + 1
    /\ IF registry.cache[name] # 0
       THEN /\ Returns(t, <<>>, [NoRet EXCEPT !.fn = "Cache", !.key = name,
                                            !.n = registry.cache[name]])
            /\ UNCHANGED stack
       ELSE /\ stack' = [stack EXCEPT ![t] =
                   <<[NoFrame EXCEPT !.fn = "Cache", !.pc = "Lock", !.key = name]>>]
            /\ UNCHANGED results
    /\ UNCHANGED <<horizon, budget, registry, aSet, loadData, now, items, heap, timerVars,
                   cleanupInterval, queueVars, lockVars, race, quietSinceFlush>>

\* A Cache that creates the table without looking again.
CacheCreatesUnchecked(t) ==
    /\ At(t, "Cache", "Lock")
    /\ registry.writer = 0 /\ registry.readers = {}
    /\ registry' = [registry EXCEPT !.made = @ + 1,
                                    !.cache[Top(t).key] = registry.made + 1]
    /\ stack' = [stack EXCEPT ![t] = Pop(@)]
    /\ Returns(t, <<>>, [NoRet EXCEPT !.fn = "Cache", !.key = Top(t).key,
                                     !.n = registry.made + 1])
    /\ UNCHANGED <<horizon, budget, aSet, loadData, now, items, heap, timerVars,
                   cleanupInterval, queueVars, lockVars, ops, race, quietSinceFlush>>

\* Cache, the section under mutex.Lock(): look again, create the table if it
\* is still absent, and return it.
CacheLock(t) ==
    /\ At(t, "Cache", "Lock")
    /\ registry.writer = 0 /\ registry.readers = {}
    /\ LET name == Top(t).key
           found == registry.cache[name]
           new == registry.made + 1
       IN /\ registry' = IF found # 0 THEN registry
                         ELSE [registry EXCEPT !.made = new, !.cache[name] = new]
          /\ Returns(t, <<>>, [NoRet EXCEPT !.fn = "Cache", !.key = name,
                                           !.n = IF found # 0 THEN found ELSE new])
    /\ stack' = [stack EXCEPT ![t] = Pop(@)]
    /\ UNCHANGED <<horizon, budget, aSet, loadData, now, items, heap, timerVars,
                   cleanupInterval, queueVars, lockVars, ops, race, quietSinceFlush>>

\* RemoveCache up to the lookup: mutex.RLock(), released on return.
RemoveCache(t, name) ==
    /\ Starts(t)
    /\ registry.writer = 0
    /\ ops' = ops + 1
    /\ registry' = [registry EXCEPT !.readers = @ \cup {t}]
    /\ stack' = [stack EXCEPT ![t] =
            <<[NoFrame EXCEPT !.fn = "RemoveCache", !.pc = "Flush", !.key = name]>>]
    /\ UNCHANGED <<horizon, budget, aSet, loadData, results, now, items, heap, timerVars,
                   cleanupInterval, queueVars, lockVars, race, quietSinceFlush>>

\* RemoveCache: cacheTable.Flush() if the table exists, delete(cache, table)
\* and the deferred mutex.RUnlock().  The table the other variables describe
\* is the first one created.
RemoveCacheDelete(t) ==
    /\ At(t, "RemoveCache", "Flush")
    /\ LET name == Top(t).key
       IN /\ IF registry.cache[name] = 1
             THEN /\ TableFree
                  /\ items' = NoKeys
                  /\ cleanupInterval' = 0
                  /\ cleanupTimer' = StopTimer(cleanupTimer)
                  /\ stack' = [OnFlush(stack) EXCEPT ![t] = <<>>]
                  /\ race' = [k \in Keys |-> NoRace]
                  /\ quietSinceFlush' = TRUE
             ELSE /\ stack' = [stack EXCEPT ![t] = Pop(@)]
                  /\ UNCHANGED <<items, cleanupInterval, cleanupTimer, race,
                                 quietSinceFlush>>
          /\ registry' = [registry EXCEPT !.cache[name] = 0, !.readers = @ \ {t}]
          /\ Returns(t, <<>>, [NoRet EXCEPT !.fn = "RemoveCache", !.key = name])
    /\ UNCHANGED <<horizon, budget, aSet, loadData, now, heap, orphanTimers, queueVars,
                   lockVars, ops>>

\* --------------------------------------------------------------------- Set
Members == {"m1", "m2"}

\* Set.Len: return set.len
SetLen == aSet.len

\* Set.SetHas: _, ok := set.members[member]; return ok
SetHas(m) == m \in aSet.members

\* Set.SetAdd: set.members[member] = 0; set.len++, under set.Lock().
SetAdd(t, m) ==
    /\ Starts(t)
    /\ ops' = ops + 1
    /\ aSet' = [len |-> aSet.len + 1, members |-> aSet.members \cup {m}]
    /\ Returns(t, <<>>, [NoRet EXCEPT !.fn = "SetAdd", !.key = m])
    /\ UNCHANGED <<horizon, budget, registry, loadData, now, items, heap, timerVars,
                   cleanupInterval, queueVars, lockVars, stack, race, quietSinceFlush>>

\* Set.SetRemove: a member that is present is deleted and set.len--, under
\* set.Lock(); an absent one leaves the set as it is.
SetRemove(t, m) ==
    /\ Starts(t)
    /\ ops' = ops + 1
    /\ aSet' = IF m \in aSet.members
              THEN [len |-> aSet.len - 1, members |-> aSet.members \ {m}]
              ELSE aSet
    /\ Returns(t, <<>>, [NoRet EXCEPT !.fn = "SetRemove", !.key = m])
    /\ UNCHANGED <<horizon, budget, registry, loadData, now, items, heap, timerVars,
                   cleanupInterval, queueVars, lockVars, stack, race, quietSinceFlush>>

\* ------------------------------------------------------------ time, timers
\* Time passes.  Time stamps are only compared for items with a life span,
\* so the clock starts with the first such item.
Tick ==
    /\ now < horizon
    /\ \E i \in Allocated : heap[i].lifeSpan > 0
    /\ now' = now + 1
    /\ UNCHANGED <<horizon, budget, registry, aSet, loadData, results, items, heap, timerVars, cleanupInterval, queueVars, lockVars, stack,
                   ops, race, quietSinceFlush>>

FreeSweeper(s) ==
    /\ s \in Sweepers /\ Idle(s)
    /\ \A u \in Sweepers : u < s => Running(u)

Spawn(s) == [stack EXCEPT ![s] = <<[NoFrame EXCEPT !.fn = "expirationCheck",
                                                   !.pc = "lock"]>>]

\* The timer the table points to fires: go table.expirationCheck()
TimerFires(s) ==
    /\ FreeSweeper(s)
    /\ cleanupTimer.state = "pending" /\ cleanupTimer.at <= now
    /\ cleanupTimer' = [state |-> "fired", at |-> 0]
    /\ stack' = Spawn(s)
    /\ UNCHANGED <<horizon, budget, registry, aSet, loadData, results, now, items, heap, orphanTimers, cleanupInterval, queueVars, lockVars,
                   ops, race, quietSinceFlush>>

\* A pending timer the table no longer points to fires.
OrphanTimerFires(s) ==
    /\ FreeSweeper(s)
    /\ orphanTimers # <<>> /\ Head(orphanTimers) <= now
    /\ orphanTimers' = Tail(orphanTimers)
    /\ stack' = Spawn(s)
    /\ UNCHANGED <<horizon, budget, registry, aSet, loadData, results, now, items, heap, cleanupTimer, cleanupInterval, queueVars, lockVars,
                   ops, race, quietSinceFlush>>

\* ------------------------------------------------------------ specification
\* The steps inside Add, Delete, Value and expirationCheck.
Steps ==
    \/ \E t \in Threads : AddInsert(t)
    \/ \E t \in Threads : AddedCallbacks(t)
    \/ \E t \in Threads : ExpirationLock(t)
    \/ \E t \in Threads : ExpirationLoop(t)
    \/ \E t \in Threads : ExpirationEnd(t)
    \/ \E t \in Threads : AboutToDeleteCallbacks(t)
    \/ \E t \in Threads : DeleteRemove(t)
    \/ \E t \in Threads : ValueKeepAlive(t)

Clock ==
    \/ \E s \in Sweepers : TimerFires(s)
    \/ Tick

\* Clients that call Add, Value and Delete only.
NextAVD ==
    \/ \E t \in Procs, k \in Keys, d \in LifeSpans : AddCall(t, k, d)
    \/ \E t \in Procs, k \in Keys : Delete(t, k)
    \/ \E t \in Procs, k \in Keys : Value(t, k)
    \/ Steps
    \/ Clock
    \/ \E s \in Sweepers : OrphanTimerFires(s)

\* The table without callbacks.
NextTable ==
    \/ NextAVD
    \/ \E t \in Procs, k \in Keys, d \in LifeSpans : NotFoundAdd(t, k, d)
    \/ \E t \in Procs, i \in ItemIds : KeepAlive(t, i)
    \/ \E t \in Procs : Flush(t)

\* Registering callbacks and running them.
Callbacks ==
    \/ \E t \in Procs, c \in CallbackKinds : AddAddedItemCallback(t, c)
    \/ \E t \in Procs, c \in CallbackKinds : AddAboutToDeleteItemCallback(t, c)
    \/ \E t \in Procs, i \in ItemIds, c \in CallbackKinds : AddAboutToExpireCallback(t, i, c)
    \/ \E t \in Threads : AboutToExpireCallbacks(t)
    \/ \E t \in Threads : CallbackNop(t)
    \/ \E t \in Threads : CallbackKeepAlive(t)

\* The table with callbacks, up to CallbackTime; no timer that the table lost
\* track of is due by then.
NextCallbacks ==
    \/ \E t \in Procs, k \in Keys, d \in LifeSpans : AddCall(t, k, d)
    \/ \E t \in Procs, k \in Keys, d \in LifeSpans : NotFoundAdd(t, k, d)
    \/ \E t \in Procs, k \in Keys : Delete(t, k)
    \/ \E t \in Procs, k \in Keys : Value(t, k)
    \/ \E t \in Procs, i \in ItemIds : KeepAlive(t, i)
    \/ \E t \in Procs : Flush(t)
    \/ Steps
    \/ Clock
    \/ Callbacks

Next == NextTable \/ Callbacks

Spec == Init /\ [][Next]_vars

SpecTable == Init /\ [][NextTable]_vars

SpecAVD == Init /\ [][NextAVD]_vars

SpecCallbacks == InitCallbacks /\ [][NextCallbacks]_vars

\* Clients that call Add, Value, Delete and SetDataLoader, and what the calls
\* return.
NextResults ==
    \/ NextAVD
    \/ \E t \in Procs, f \in Loaders : SetDataLoader(t, f)
    \/ \E t \in Threads : ValueLoad(t)
    \/ \E t \in Threads : ValueLoaded(t)

SpecResults == InitResults /\ [][NextResults]_vars

\* One client that makes one call after the other, next to the sweeper, up
\* to CallbackTime.
NextSequential ==
    \/ \E k \in Keys, d \in LifeSpans : AddCall(1, k, d)
    \/ \E k \in Keys : Delete(1, k)
    \/ \E k \in Keys : Value(1, k)
    \/ \E k \in Keys : Exists(1, k)
    \/ \E f \in Loaders : SetDataLoader(1, f)
    \/ \E t \in Threads : ValueLoad(t)
    \/ \E t \in Threads : ValueLoaded(t)
    \/ Steps
    \/ Clock

SpecSequential == InitSequential /\ [][NextSequential]_vars

\* One client that registers and removes callbacks, adds and deletes, while
\* no time passes.
NextQueues ==
    \/ \E k \in Keys, d \in LifeSpans : AddCall(1, k, d)
    \/ \E k \in Keys : Delete(1, k)
    \/ \E c \in CallbackKinds : AddAddedItemCallback(1, c)
    \/ \E c \in CallbackKinds : AddAboutToDeleteItemCallback(1, c)
    \/ \E i \in ItemIds, c \in CallbackKinds : AddAboutToExpireCallback(1, i, c)
    \/ \E c \in CallbackKinds : SetAddedItemCallback(1, c)
    \/ \E c \in CallbackKinds : SetAboutToDeleteItemCallback(1, c)
    \/ \E i \in ItemIds, c \in CallbackKinds : SetAboutToExpireCallback(1, i, c)
    \/ RemoveAddedItemCallbacks(1)
    \/ RemoveAboutToDeleteItemCallback(1)
    \/ \E i \in ItemIds : RemoveAboutToExpireCallback(1, i)
    \/ \E t \in Threads : SetCallbackAppend(t)
    \/ \E t \in Threads : AboutToExpireCallbacks(t)
    \/ \E t \in Threads : CallbackNop(t)
    \/ \E t \in Threads : CallbackKeepAlive(t)
    \/ \E t \in Threads : AddInsert(t)
    \/ \E t \in Threads : AddedCallbacks(t)
    \/ \E t \in Threads : ExpirationLock(t)
    \/ \E t \in Threads : ExpirationLoop(t)
    \/ \E t \in Threads : ExpirationEnd(t)
    \/ \E t \in Threads : AboutToDeleteCallbacks(t)
    \/ \E t \in Threads : DeleteRemove(t)

SpecQueues == InitSequential /\ [][NextQueues]_vars

\* Two clients that add items without a life span and replace callbacks.
NextSetCallbacks ==
    \/ \E t \in Procs, k \in Keys : AddCall(t, k, 0)
    \/ \E t \in Procs, c \in CallbackKinds : SetAddedItemCallback(t, c)
    \/ \E t \in Procs, c \in CallbackKinds : SetAboutToDeleteItemCallback(t, c)
    \/ \E t \in Procs, i \in ItemIds, c \in CallbackKinds : SetAboutToExpireCallback(t, i, c)
    \/ \E t \in Procs, i \in ItemIds : KeepAlive(t, i)
    \/ \E t \in Threads : SetCallbackAppend(t)
    \/ \E t \in Threads : AddInsert(t)
    \/ \E t \in Threads : AddedCallbacks(t)
    \/ \E t \in Threads : CallbackNop(t)
    \/ \E t \in Threads : CallbackKeepAlive(t)

SpecSetCallbacks == Init /\ [][NextSetCallbacks]_vars

\* One client that registers callbacks and a loader, adds items without a
\* life span and flushes.
NextFlush ==
    \/ \E k \in Keys : AddCall(1, k, 0)
    \/ Flush(1)
    \/ \E f \in Loaders : SetDataLoader(1, f)
    \/ \E c \in CallbackKinds : AddAddedItemCallback(1, c)
    \/ \E c \in CallbackKinds : AddAboutToDeleteItemCallback(1, c)
    \/ \E i \in ItemIds, c \in CallbackKinds : AddAboutToExpireCallback(1, i, c)
    \/ \E t \in Threads : AddInsert(t)
    \/ \E t \in Threads : AddedCallbacks(t)
    \/ \E t \in Threads : CallbackNop(t)
    \/ \E t \in Threads : CallbackKeepAlive(t)

SpecFlush == InitSequential /\ [][NextFlush]_vars

\* One client that adds members to a Set and removes them.
NextSet ==
    \/ \E m \in Members : SetAdd(1, m)
    \/ \E m \in Members : SetRemove(1, m)

SpecSet == InitSequential /\ [][NextSet]_vars

\* The steps of goroutine t inside a call of Add or Delete or inside a sweep.
Goroutine(t) ==
    \/ AddInsert(t)
    \/ AddedCallbacks(t)
    \/ ExpirationLock(t)
    \/ ExpirationLoop(t)
    \/ ExpirationEnd(t)
    \/ AboutToDeleteCallbacks(t)
    \/ DeleteRemove(t)

\* Two clients that add, delete, flush and iterate, next to the sweeper, up
\* to CallbackTime.
NextForeach ==
    \/ \E t \in Procs, k \in Keys, d \in LifeSpans : AddCall(t, k, d)
    \/ \E t \in Procs, k \in Keys : Delete(t, k)
    \/ \E t \in Procs : Flush(t)
    \/ \E t \in Procs : Foreach(t)
    \/ \E t \in Procs, k \in Keys, v \in Visitors : ForeachVisit(t, k, v)
    \/ \E t \in Procs : ForeachEnd(t)
    \/ \E t \in Threads : Goroutine(t)
    \/ Clock

SpecForeach == InitCallbacks /\ [][NextForeach]_vars

\* Clients that call Add and Delete, next to the sweeper.
NextExpiry ==
    \/ \E t \in Procs, k \in Keys, d \in LifeSpans : AddCall(t, k, d)
    \/ \E t \in Procs, k \in Keys : Delete(t, k)
    \/ \E t \in Threads : Goroutine(t)
    \/ Clock
    \/ \E s \in Sweepers : OrphanTimerFires(s)

\* The runs in which the clients may stop calling at any time, while every
\* goroutine that can take a step takes one (the Go scheduler runs every
\* runnable goroutine, and a sync.RWMutex does not starve a waiter), time
\* passes up to the horizon, and a timer that is due fires.
SpecQuiescence ==
    /\ Init /\ [][NextExpiry]_vars
    /\ \A t \in Threads : WF_vars(Goroutine(t))
    /\ WF_vars(Tick)
    /\ \A s \in Sweepers : WF_vars(TimerFires(s)) /\ WF_vars(OrphanTimerFires(s))

\* One client that adds plain values and uses the hash adapter, on items
\* without a life span.
NextHash ==
    \/ \E k \in Keys : AddCall(1, k, 0)
    \/ \E k \in Keys, h \in HKeys : HAdd(1, k, 0, h)
    \/ \E k \in Keys, h \in HKeys : HValue(1, k, h)
    \/ \E k \in Keys, h \in HKeys : HDelete(1, k, h)
    \/ \E t \in Threads : HAddLocked(t)
    \/ \E t \in Threads : AddInsert(t)
    \/ \E t \in Threads : AddedCallbacks(t)

SpecHash == InitSequential /\ [][NextHash]_vars

\* Two clients that get, create and remove tables of the registry.
NextRegistry ==
    \/ \E t \in Procs, name \in Names : Cache(t, name)
    \/ \E t \in Procs : CacheLock(t)
    \/ \E t \in Procs, name \in Names : RemoveCache(t, name)
    \/ \E t \in Procs : RemoveCacheDelete(t)

SpecRegistry == InitSequential /\ [][NextRegistry]_vars

\* One client that adds, reads and asks for the most accessed items, next to
\* the sweeper, up to CallbackTime.
NextAccess ==
    \/ \E k \in Keys, d \in LifeSpans : AddCall(1, k, d)
    \/ \E k \in Keys : Value(1, k)
    \/ \E k \in Keys : Exists(1, k)
    \/ \E n \in Counts : MostAccessed(1, n)
    \/ Steps
    \/ Clock

SpecAccess == InitSequential /\ [][NextAccess]_vars

\* One client that registers callbacks for removals, adds and deletes, next
\* to the sweeper, up to CallbackTime.
NextRemovals ==
    \/ \E k \in Keys, d \in LifeSpans : AddCall(1, k, d)
    \/ \E k \in Keys : Delete(1, k)
    \/ \E c \in CallbackKinds : AddAboutToDeleteItemCallback(1, c)
    \/ \E i \in ItemIds, c \in CallbackKinds : AddAboutToExpireCallback(1, i, c)
    \/ \E t \in Threads : AboutToExpireCallbacks(t)
    \/ \E t \in Threads : CallbackNop(t)
    \/ \E t \in Threads : CallbackKeepAlive(t)
    \/ \E t \in Threads : AddInsert(t)
    \/ \E t \in Threads : AddedCallbacks(t)
    \/ \E t \in Threads : ExpirationLock(t)
    \/ \E t \in Threads : ExpirationLoop(t)
    \/ \E t \in Threads : ExpirationEnd(t)
    \/ \E t \in Threads : AboutToDeleteCallbacks(t)
    \/ \E t \in Threads : DeleteRemove(t)
    \/ Clock

SpecRemovals == InitSequential /\ [][NextRemovals]_vars

\* ================================================================= claims
\* The step in which goroutine t, inside deleteInternal called by a sweep
\* (expirationCheck), executes delete(table.items, key) on a cached key.
SweepRemoves(t) ==
    /\ At(t, "deleteInternal", "aboutToExpire")
    /\ Len(stack[t]) >= 2
    /\ stack[t][Len(stack[t]) - 1].fn = "expirationCheck"
    /\ Len(stack'[t]) < Len(stack[t])
    /\ items[Top(t).key] # 0

\* The step in which goroutine t completes a sweep.
SweepEnds(t) ==
    /\ At(t, "expirationCheck", "loop")
    /\ tableW = t /\ tableW' = 0
    /\ Len(stack'[t]) < Len(stack[t])

\* C1: NotFoundAdd is an atomic check-and-insert.  Among the NotFoundAdd
\* calls on a key since the key was last absent (no Delete, Flush, sweep
\* removal or plain Add on it meanwhile) at most one returned true; if one
\* returned false then exactly one returned true; and the table holds the
\* item of the one that returned true.
C1_NotFoundAddAtomic ==
    \A k \in Keys :
        race[k].on =>
            /\ race[k].wins <= 1
            /\ race[k].lost => race[k].wins = 1
            /\ race[k].wins = 1 => items[k] = race[k].winner

\* Two NotFoundAdd calls raced on a key: one returned false while the one
\* that returned true was still inside addInternal.
C1_Witness ==
    \E k \in Keys, t \in Procs :
        /\ race[k].on /\ race[k].lost /\ race[k].wins = 1
        /\ Running(t) /\ stack[t][1].fn = "NotFoundAdd" /\ stack[t][1].key = k

\* C2: an item with lifeSpan > 0 that got no keep-alive for lifeSpan time
\* units is eventually removed by a sweep.  Only a running goroutine or a
\* pending timer can start a sweep, so whenever such an item is in the table
\* a goroutine is running or a cleanup timer is pending.
C2_ExpiredItemIsSwept ==
    \A k \in Keys :
        (/\ items[k] # 0
         /\ heap[items[k]].lifeSpan > 0
         /\ now - heap[items[k]].accessedOn >= heap[items[k]].lifeSpan)
        => (PendingTimers > 0 \/ \E t \in Threads : Running(t))

\* C3: whenever a sweep removes an item, now - accessedOn >= lifeSpan holds
\* for the accessedOn the item has at the moment of removal.
C3_NoStaleEviction ==
    [][\A t \in Threads :
          SweepRemoves(t) =>
              LET r == items[Top(t).key]
              IN now - heap[r].accessedOn >= heap[r].lifeSpan]_vars

\* C4: an item with lifeSpan = 0 is never removed by the scheduler.
C4_ZeroLifeSpanNeverSwept ==
    [][\A t \in Threads :
          SweepRemoves(t) => heap[items[Top(t).key]].lifeSpan # 0]_vars

\* C5: a keep-alive at time t restarts the expiry window of an item with
\* lifeSpan d > 0.  (a) A sweep that removes the item it looked up, with the
\* accessedOn it read still the item's accessedOn (no access interleaved),
\* does so at or after accessedOn + d.  (b) When a sweep completes, no item
\* that was in the table when it started, and whose window had elapsed at the
\* sweep's `now`, is left.  (c) When a sweep completes and an item with
\* lifeSpan > 0 that was in the table when it started is still there, the
\* timer is armed again.
C5_KeepAliveRestartsWindow ==
    [][\A t \in Threads :
          /\ (/\ SweepRemoves(t)
              /\ items[Top(t).key] = Top(t).item
              /\ heap[Top(t).item].accessedOn = Top(t).accessedOn)
             => now >= heap[Top(t).item].accessedOn + heap[Top(t).item].lifeSpan
          /\ (SweepEnds(t) /\ ~Top(t).flushedOver)
             => \A k \in Keys :
                   (/\ items[k] # 0 /\ items[k] = Top(t).start[k]
                    /\ heap[items[k]].lifeSpan > 0)
                   => /\ heap[items[k]].accessedOn + heap[items[k]].lifeSpan > Top(t).tnow
                      /\ cleanupTimer'.state = "pending"]_vars

\* An item was kept alive, outlived the window that started at its creation,
\* and the sweep that ran since kept it and armed the timer again.
C5_Witness ==
    \E k \in Keys :
        /\ items[k] # 0
        /\ heap[items[k]].lifeSpan > 0
        /\ heap[items[k]].accessCount > 0
        /\ now >= heap[items[k]].createdOn + heap[items[k]].lifeSpan
        /\ cleanupTimer.state = "pending"
        /\ cleanupTimer.at = heap[items[k]].accessedOn + heap[items[k]].lifeSpan
        /\ cleanupTimer.at > now
        /\ \A t \in Threads : Idle(t)

\* C6: a user callback is never invoked while the invoking goroutine holds a
\* lock of the table or of an item.
C6_CallbacksOutsideLocks ==
    \A t \in Threads : At(t, "callback", "enter") => ~HoldsLock(t)

\* C7: a callback that re-enters the cache never deadlocks: a goroutine whose
\* callback calls KeepAlive on the item it was invoked for does not hold a
\* lock of that item, which its own item.Lock() would wait for forever.
C7_ReentrantCallbackReturns ==
    \A t \in Threads :
        (Running(t) /\ Top(t).fn = "callback" /\ Top(t).kind = "KeepAlive")
        => itemR[Top(t).item][t] = 0

\* C8: at most one cleanup timer of the table is pending at any time.
C8_AtMostOneTimer == PendingTimers <= 1

\* C9: after Flush returns the table is empty, no about-to-delete or
\* about-to-expire callback is invoked for an item looked up before the
\* Flush, and as long as nothing is inserted no timer is pending.
C9_FlushCancels ==
    /\ quietSinceFlush => (items = NoKeys /\ PendingTimers = 0)
    /\ \A t \in Threads :
          (At(t, "callback", "enter") /\ Len(stack[t]) >= 2)
          => ~(/\ stack[t][Len(stack[t]) - 1].fn = "deleteInternal"
               /\ stack[t][Len(stack[t]) - 1].flushedOver)

\* C10: Flush is mutually exclusive with Delete and the sweep: no Flush falls
\* between the lookup and the removal of a deleteInternal, or between the
\* start and the end of a sweep's range over the items.
C10_FlushExclusive ==
    \A t \in Threads : \A n \in 1..Len(stack[t]) : ~stack[t][n].flushedOver

\* C11: a Delete of a key that is not cached returns ErrKeyNotFound and no
\* item, changes neither the items, the count, the timer nor the cleanup
\* interval, runs no callback, and leaves the table unlocked.
C11_DeleteAbsentKey ==
    [][\A t \in Procs, k \in Keys :
          (items[k] = 0 /\ Delete(t, k)) =>
              /\ ret'[t].fn = "Delete" /\ ret'[t].key = k
              /\ ret'[t].err = "ErrKeyNotFound" /\ ret'[t].item = 0
              /\ items' = items /\ Count' = Count
              /\ timerVars' = timerVars /\ cleanupInterval' = cleanupInterval
              /\ heap' = heap
              /\ stack' = stack /\ stack'[t] = <<>>
              /\ tableW' = 0]_vars

\* A Delete has missed one key while the other key is cached and the timer
\* is armed.
C11_Witness ==
    \E t \in Procs, k \in Keys :
        /\ Idle(t) /\ ret[t] = [NoRet EXCEPT !.fn = "Delete", !.key = k,
                                              !.err = "ErrKeyNotFound"]
        /\ items[k] = 0 /\ Count = 1
        /\ cleanupTimer.state = "pending"

\* C12: when Add(k) is followed by Delete(k) with nothing else done to k in
\* between, the Delete returns the item the Add stored; from then on, until
\* something is stored under k again, Exists(k) is false, Value(k) without a
\* loader returns ErrKeyNotFound, and a Delete(k) returns ErrKeyNotFound.
\* (The history holds the calls that returned and the removals by the sweep;
\* that deleteInternal found the item it is going to remove is not counted.)
C12_AddDeleteRoundTrip ==
    LET Between(k, a, b) ==
            {n \in (a + 1)..(b - 1) : hist[n].key = k /\ hist[n].fn # "deleteInternal"}
        Stores(e) == e.fn \in {"Add", "NotFoundAdd"} \/ (e.fn = "Value" /\ e.err = "")
        Swept(e) == e.fn = "expirationCheck"
        LoaderSet(e) == e.fn = "SetDataLoader"
    IN \A a, b \in 1..Len(hist) :
        (/\ a < b
         /\ hist[a].fn = "Add" /\ hist[b].fn = "Delete" /\ hist[b].key = hist[a].key
         /\ Between(hist[a].key, a, b) = {}
         /\ \A n \in Between(hist[a].key, 0, a) : ~Swept(hist[n])) =>
            /\ hist[b].err = "" /\ hist[b].item = hist[a].item
            /\ (b = Len(hist) /\ \A t \in Procs : Idle(t)) => items[hist[a].key] = 0
            /\ \A c \in (b + 1)..Len(hist) :
                  (/\ hist[c].key = hist[a].key
                   /\ \A n \in Between(hist[a].key, b, c) : ~Stores(hist[n])) =>
                     /\ hist[c].fn = "Exists" => ~hist[c].ok
                     /\ (hist[c].fn = "Value" /\ \A n \in 1..(c - 1) : ~LoaderSet(hist[n]))
                            => hist[c].err = "ErrKeyNotFound"
                     /\ hist[c].fn = "Delete" =>
                            hist[c].err = "ErrKeyNotFound" /\ hist[c].item = 0

\* Add(k), Delete(k), Exists(k), Delete(k) have returned, in this order.
C12_Witness ==
    /\ Len(hist) = 6
    /\ hist[2].fn = "Add" /\ hist[2].item # 0
    /\ \A n \in 3..6 : hist[n].key = hist[2].key
    /\ hist[3].fn = "deleteInternal"
    /\ hist[4].fn = "Delete" /\ hist[4].item = hist[2].item
    /\ hist[5].fn = "Exists" /\ ~hist[5].ok
    /\ hist[6].fn = "Delete" /\ hist[6].err = "ErrKeyNotFound"

\* C13: a removal, by Delete or by the sweep, invokes the table's
\* about-to-delete callbacks in the order they were registered and then the
\* item's about-to-expire callbacks in the order they were registered, each
\* for the key and the item being removed: while the removal runs the
\* callbacks invoked so far are a prefix of that list, and when it has
\* removed the item they are the whole list.  (The callbacks registered on
\* the item while the sweep is removing it are left aside.)
C13_RemovalCallbackOrder ==
    LET N == Len(hist)
        Cbs(P(_), lo, hi) ==
            LET F[n \in (lo - 1)..hi] ==
                    IF n < lo THEN <<>>
                    ELSE IF P(n) THEN Append(F[n - 1], hist[n].cb) ELSE F[n - 1]
            IN F[hi]
        Ends(s) == {n \in (s + 1)..N : hist[n].t = hist[s].t /\ hist[n].fn # "callback"}
        End(s) == IF Ends(s) = {} THEN N + 1
                  ELSE CHOOSE n \in Ends(s) : \A m \in Ends(s) : n <= m
        Ran(s) == Cbs(LAMBDA n : hist[n].t = hist[s].t /\ hist[n].fn = "callback",
                      s + 1, End(s) - 1)
        Registered(s) ==
            Cbs(LAMBDA n : hist[n].fn = "AddAboutToDeleteItemCallback", 1, s - 1)
            \o Cbs(LAMBDA n : hist[n].fn = "AddAboutToExpireCallback"
                                /\ hist[n].item = hist[s].item, 1, s - 1)
        Meanwhile(s) == \E n \in (s + 1)..(End(s) - 1) :
                            hist[n].fn = "AddAboutToExpireCallback"
                                /\ hist[n].item = hist[s].item
    IN \A s \in 1..N :
          (hist[s].fn = "deleteInternal" /\ ~Meanwhile(s)) =>
              /\ Len(Ran(s)) <= Len(Registered(s))
              /\ Ran(s) = SubSeq(Registered(s), 1, Len(Ran(s)))
              /\ End(s) <= N => Ran(s) = Registered(s)
              /\ \A n \in (s + 1)..(End(s) - 1) :
                    (hist[n].t = hist[s].t) =>
                        hist[n].key = hist[s].key /\ hist[n].item = hist[s].item

\* The sweep has removed an item after it invoked a callback of the table
\* and then a different callback of the item.
C13_Witness ==
    \E s \in 1..(Len(hist) - 3) :
        /\ hist[s].fn = "deleteInternal" /\ hist[s].t \in Sweepers
        /\ hist[s + 1].fn = "callback" /\ hist[s + 1].cb = "KeepAlive"
        /\ hist[s + 2].fn = "callback" /\ hist[s + 2].cb = "nop"
        /\ hist[s + 3].fn = "expirationCheck" /\ hist[s + 3].item = hist[s].item
        /\ \E n \in 1..s : hist[n].fn = "AddAboutToExpireCallback" /\ hist[n].cb = "nop"

\* C14: a Value that finds the key returns the item stored under it and
\* keeps it alive exactly once: the lookup changes nothing, the KeepAlive
\* adds one to the item's accessCount, sets its accessedOn to the current
\* time and changes nothing else of the program's state; so the accessCount
\* of an item a client added is the number of Value calls that returned it
\* (1 after Add, Value).
C14_ValueHit ==
    /\ [](\A a \in 1..Len(hist) :
             hist[a].fn = "Add" =>
                 heap[hist[a].item].accessCount =
                     Cardinality({n \in 1..Len(hist) :
                         hist[n].fn = "Value" /\ hist[n].err = ""
                             /\ hist[n].item = hist[a].item}))
    /\ [][\A k \in Keys :
            (items[k] # 0 /\ Value(1, k)) =>
                /\ Top(1)'.fn = "Value" /\ Top(1)'.item = items[k]
                /\ heap' = heap /\ items' = items /\ hist' = hist
                /\ timerVars' = timerVars /\ cleanupInterval' = cleanupInterval]_vars
    /\ [][ValueKeepAlive(1) =>
            LET i == Top(1).item
            IN /\ heap'[i].accessCount = heap[i].accessCount + 1
               /\ heap'[i].accessedOn = now
               /\ heap' = [heap EXCEPT ![i].accessCount = heap'[i].accessCount,
                                       ![i].accessedOn = heap'[i].accessedOn,
                                       ![i].keepAlives = heap'[i].keepAlives]
               /\ hist' = Append(hist, [NoRet EXCEPT !.t = 1, !.fn = "Value",
                                            !.key = Top(1).key, !.item = i])
               /\ items' = items /\ timerVars' = timerVars
               /\ cleanupInterval' = cleanupInterval /\ loadData' = loadData
               /\ addedItem' = addedItem /\ aboutToDeleteItem' = aboutToDeleteItem]_vars

\* Add(k) and then, later in time, Value(k) have returned the same item.
C14_Witness ==
    /\ Len(hist) = 3
    /\ hist[2].fn = "Add" /\ hist[3].fn = "Value"
    /\ hist[3].key = hist[2].key /\ hist[3].item = hist[2].item /\ hist[3].err = ""
    /\ heap[hist[2].item].accessCount = 1
    /\ heap[hist[2].item].createdOn = 0 /\ heap[hist[2].item].accessedOn = 1

\* C15: a Value that misses the key returns ErrKeyNotFound when no loader is
\* installed, and ErrKeyNotFoundOrLoadable when the loader returns nil; in
\* both cases it returns no item, stores nothing and invokes no callback.
C15_ValueMiss ==
    /\ [][\A k \in Keys :
            (items[k] = 0 /\ loadData = "nil" /\ Value(1, k)) =>
                /\ ret'[1] = [NoRet EXCEPT !.fn = "Value", !.key = k,
                                           !.err = "ErrKeyNotFound"]
                /\ items' = items /\ heap' = heap /\ stack' = stack]_vars
    /\ [][(ValueLoad(1) /\ Top(1).kind = "LoadNil") =>
                /\ ret'[1] = [NoRet EXCEPT !.fn = "Value", !.key = Top(1).key,
                                           !.err = "ErrKeyNotFoundOrLoadable"]
                /\ items' = items /\ heap' = heap
                /\ stack'[1] = <<>> /\ \A u \in Sweepers : stack'[u] = stack[u]]_vars
    /\ [](\A n \in 1..Len(hist) :
             (hist[n].fn = "Value" /\ hist[n].err # "") =>
                 /\ hist[n].item = 0
                 /\ (n < Len(hist) /\ hist[n + 1].fn = "Exists"
                        /\ hist[n + 1].key = hist[n].key) => ~hist[n + 1].ok)

\* Value(k) has missed without a loader, then with a loader that returns
\* nil, and Exists(k) is false afterwards.
C15_Witness ==
    /\ Len(hist) = 5
    /\ hist[2].fn = "Value" /\ hist[2].err = "ErrKeyNotFound"
    /\ hist[3].fn = "SetDataLoader" /\ hist[3].key = "LoadNil"
    /\ hist[4].fn = "Value" /\ hist[4].err = "ErrKeyNotFoundOrLoadable"
    /\ hist[4].key = hist[2].key
    /\ hist[5].fn = "Exists" /\ hist[5].key = hist[2].key /\ ~hist[5].ok
    /\ Count = 0

\* C16: the item a Value returns is the item stored under the key, also when
\* the loader produced it: a Value of the same key that follows directly and
\* succeeds returns the same item.
C16_LoadedItemIsStored ==
    \A n \in 1..(Len(hist) - 1) :
        (/\ hist[n].fn = "Value" /\ hist[n].err = ""
         /\ hist[n + 1].fn = "Value" /\ hist[n + 1].err = ""
         /\ hist[n + 1].key = hist[n].key) =>
            hist[n + 1].item = hist[n].item

\* C17: Exists and MostAccessed only read: a call of either changes no
\* item's accessedOn or accessCount, nor the items, the timer or the cleanup
\* interval, and starts neither the loader nor a KeepAlive; so the
\* accessCount of an added item stays the number of Value calls that
\* returned it, however often the two are called.
C17_ReadOnlyQueries ==
    /\ [][((\E k \in Keys : Exists(1, k)) \/ (\E n \in Counts : MostAccessed(1, n))) =>
            /\ heap' = heap /\ items' = items
            /\ timerVars' = timerVars /\ cleanupInterval' = cleanupInterval
            /\ loadData' = loadData /\ stack' = stack]_vars
    /\ [](\A a \in 1..Len(hist) :
             hist[a].fn = "Add" =>
                 heap[hist[a].item].accessCount =
                     Cardinality({n \in 1..Len(hist) :
                         hist[n].fn = "Value" /\ hist[n].err = ""
                             /\ hist[n].item = hist[a].item}))

\* After time has passed, Exists has found an item with a life span and
\* MostAccessed has returned it, and the item is as Add created it.
C17_Witness ==
    /\ Len(hist) = 4 /\ now = 1
    /\ hist[2].fn = "Add"
    /\ hist[3].fn = "Exists" /\ hist[3].ok /\ hist[3].key = hist[2].key
    /\ hist[4].fn = "MostAccessed" /\ hist[4].list = <<hist[2].item>>
    /\ heap[hist[2].item].lifeSpan > 0
    /\ heap[hist[2].item].accessedOn = 0 /\ heap[hist[2].item].accessCount = 0
    /\ items[hist[2].key] = hist[2].item

\* C18: MostAccessed(n), n >= 0, returns min(n, Count()) different items of
\* the table, in an order in which the accessCount never increases, and no
\* item it leaves out has a greater accessCount than an item it returns.
C18_MostAccessedSorted ==
    [][\A n \in Counts :
          MostAccessed(1, n) =>
              LET r == ret'[1].list
                  stored == {items[k] : k \in Keys} \ {0}
                  returned == {r[j] : j \in DOMAIN r}
              IN /\ ret'[1].fn = "MostAccessed"
                 /\ Len(r) = IF n < Count THEN n ELSE Count
                 /\ returned \subseteq stored
                 /\ \A i, j \in DOMAIN r : i # j => r[i] # r[j]
                 /\ \A j \in 1..(Len(r) - 1) :
                       heap[r[j]].accessCount >= heap[r[j + 1]].accessCount
                 /\ \A x \in stored \ returned : \A y \in returned :
                       heap[x].accessCount <= heap[y].accessCount]_vars

\* MostAccessed(1) has returned the item that was accessed, out of two items.
C18_Witness ==
    /\ Len(hist) = 5 /\ Count = 2
    /\ hist[5].fn = "MostAccessed" /\ hist[5].n = 1 /\ Len(hist[5].list) = 1
    /\ heap[hist[5].list[1]].accessCount = 1
    /\ \E k \in Keys : items[k] # 0 /\ heap[items[k]].accessCount = 0

\* C19: for calls made one after the other, each of the three callback
\* queues is what the calls that returned make of it, Set(f) giving <<f>>,
\* Add(f) appending f, Remove giving the empty queue; and an Add or a Delete
\* that returned invoked exactly the callbacks of its queues, in their
\* order (none after a Remove).
C19_CallbackQueues ==
    LET N == Len(hist)
        Queue(set, add, remove, i, hi) ==
            LET F[n \in 0..hi] ==
                    IF n = 0 THEN <<>>
                    ELSE IF hist[n].item # i THEN F[n - 1]
                    ELSE IF hist[n].fn = set THEN <<hist[n].cb>>
                    ELSE IF hist[n].fn = add THEN Append(F[n - 1], hist[n].cb)
                    ELSE IF hist[n].fn = remove THEN <<>>
                    ELSE F[n - 1]
            IN F[hi]
        Added(hi) == Queue("SetAddedItemCallback", "AddAddedItemCallback",
                           "RemoveAddedItemCallbacks", 0, hi)
        AboutToDelete(hi) == Queue("SetAboutToDeleteItemCallback",
                                   "AddAboutToDeleteItemCallback",
                                   "RemoveAboutToDeleteItemCallback", 0, hi)
        AboutToExpire(i, hi) == Queue("SetAboutToExpireCallback",
                                      "AddAboutToExpireCallback",
                                      "RemoveAboutToExpireCallback", i, hi)
        First(b) == CHOOSE n \in 1..b :
                        /\ \A m \in n..(b - 1) : hist[m].fn = "callback"
                        /\ n > 1 => hist[n - 1].fn # "callback"
        Ran(b) == [j \in 1..(b - First(b)) |-> hist[First(b) + j - 1].cb]
    IN /\ Idle(1) =>
            /\ addedItem = Added(N)
            /\ aboutToDeleteItem = AboutToDelete(N)
            /\ \A i \in Allocated : heap[i].aboutToExpire = AboutToExpire(i, N)
       /\ \A b \in 1..N :
            /\ hist[b].fn = "Add" => Ran(b) = Added(b)
            /\ (hist[b].fn = "Delete" /\ hist[b].err = "") =>
                    Ran(b) = AboutToDelete(b) \o AboutToExpire(hist[b].item, b)

\* After AddAddedItemCallback(f) and SetAddedItemCallback(g), an Add has
\* invoked g only; after RemoveAddedItemCallbacks the queue is empty.
C19_Witness ==
    /\ Len(hist) = 6 /\ Idle(1)
    /\ hist[2].fn = "AddAddedItemCallback" /\ hist[2].cb = "KeepAlive"
    /\ hist[3].fn = "SetAddedItemCallback" /\ hist[3].cb = "nop"
    /\ hist[4].fn = "callback" /\ hist[4].cb = "nop"
    /\ hist[5].fn = "Add"
    /\ hist[6].fn = "RemoveAddedItemCallbacks"
    /\ addedItem = <<>>

\* C20: Add stores the new item before it invokes an added-item callback:
\* whenever it invokes one, the key holds the new item and the callback gets
\* that item; an Add that returned has invoked the callbacks that were in
\* the queue, each once and in the order of the queue, all with the item it
\* returns, and that item is the one stored under the key.
C20_AddCallbacks ==
    /\ [][(AddedCallbacks(1) /\ Top(1).fn = "Add" /\ Top(1).i <= Len(Top(1).cbs)) =>
            /\ items[Top(1).key] = Top(1).item
            /\ Top(1)'.fn = "callback" /\ Top(1)'.item = Top(1).item
            /\ Top(1)'.kind = addedItem[Top(1).i]
            /\ hist' = Append(hist, [NoRet EXCEPT !.t = 1, !.fn = "callback",
                                !.key = Top(1).key, !.item = Top(1).item,
                                !.cb = addedItem[Top(1).i]])]_vars
    /\ [](\A b \in 1..Len(hist) :
            hist[b].fn = "Add" =>
                LET first == CHOOSE n \in 1..b :
                                 /\ \A m \in n..(b - 1) : hist[m].fn = "callback"
                                 /\ n > 1 => hist[n - 1].fn # "callback"
                    ran == [j \in 1..(b - first) |-> hist[first + j - 1]]
                IN /\ hist[b].item # 0
                   /\ (b = Len(hist) /\ Idle(1)) =>
                        /\ items[hist[b].key] = hist[b].item
                        /\ Len(ran) = Len(addedItem)
                        /\ \A j \in 1..Len(ran) : ran[j].cb = addedItem[j]
                   /\ \A j \in 1..Len(ran) :
                        ran[j].item = hist[b].item /\ ran[j].key = hist[b].key)

\* An Add has returned the item it stored after it invoked the two callbacks
\* of the queue in their order, the first of which kept the new item alive.
C20_Witness ==
    /\ Len(hist) = 6
    /\ hist[2].fn = "AddAddedItemCallback" /\ hist[2].cb = "KeepAlive"
    /\ hist[3].fn = "AddAddedItemCallback" /\ hist[3].cb = "nop"
    /\ hist[4].fn = "callback" /\ hist[4].cb = "KeepAlive"
    /\ hist[5].fn = "callback" /\ hist[5].cb = "nop"
    /\ hist[6].fn = "Add" /\ items[hist[6].key] = hist[6].item
    /\ heap[hist[6].item].accessCount = 1

\* ------------------------------------------------------------------ C21
\* C21: an item's accessedOn is never before its createdOn and its
\* accessCount is never negative; createdOn, key and lifeSpan never change
\* after construction; accessCount never decreases and equals the number of
\* keep-alive events completed on the item (KeepAlive calls and Value hits),
\* also when two clients keep the same item alive concurrently.
C21_ItemMetadata ==
    /\ [](\A i \in Allocated :
            /\ heap[i].accessedOn >= heap[i].createdOn
            /\ heap[i].accessCount >= 0
            /\ heap[i].accessCount = heap[i].keepAlives)
    /\ [][\A i \in Allocated :
            /\ heap'[i].createdOn = heap[i].createdOn
            /\ heap'[i].key = heap[i].key
            /\ heap'[i].lifeSpan = heap[i].lifeSpan
            /\ heap'[i].accessCount >= heap[i].accessCount]_vars

\* A KeepAlive call has completed on an item, later than its creation, while
\* the Value of the other client has found the same item and is about to keep
\* it alive.
C21_Witness ==
    \E t \in Procs : \E i \in Allocated :
        /\ At(t, "Value", "KeepAlive") /\ Top(t).item = i
        /\ heap[i].accessCount = 1
        /\ heap[i].accessedOn > heap[i].createdOn

\* ------------------------------------------------------------------ C22
\* C22: every read or write of an item's mutable state happens under that
\* item's lock, so that no goroutine touches the state while another one is
\* writing it: here, no goroutine reads the length of an item's
\* about-to-expire queue while another goroutine is at the append to it.
C22_ItemStateUnderLock ==
    [][\A t \in Procs, i \in ItemIds, c \in CallbackKinds :
          SetAboutToExpireCallback(t, i, c)
             => ~\E u \in Threads \ {t} :
                    /\ At(u, "SetAboutToExpireCallback", "lock")
                    /\ Top(u).item = i]_vars

\* ------------------------------------------------------------------ C23
\* C23: Cache(name) is get-or-create: of two calls with the same name,
\* concurrent or one after the other, with no RemoveCache of that name
\* completing between their returns, both return the same table; a returned
\* table is the one the registry holds for the name, and the registry never
\* holds one table under two names.
C23_CacheGetOrCreate ==
    /\ \A a, b \in 1..Len(hist) :
          (/\ a < b
           /\ hist[a].fn = "Cache" /\ hist[b].fn = "Cache"
           /\ hist[a].key \in Names /\ hist[a].key = hist[b].key
           /\ \A c \in a..b : ~(hist[c].fn = "RemoveCache" /\ hist[c].key = hist[a].key))
             => hist[a].n = hist[b].n /\ hist[a].n # 0
    /\ \A m, n \in Names :
          registry.cache[m] # 0 /\ registry.cache[m] = registry.cache[n] => m = n
    /\ (Len(hist) > 1 /\ hist[Len(hist)].fn = "Cache")
          => registry.cache[hist[Len(hist)].key] = hist[Len(hist)].n

\* Both clients found no table of the same name under the read lock, the first
\* has created it and the second has returned the same table.
C23_Witness ==
    /\ Len(hist) = 3
    /\ hist[2].fn = "Cache" /\ hist[3].fn = "Cache"
    /\ hist[2].t # hist[3].t
    /\ hist[2].key = hist[3].key
    /\ hist[2].n = 1 /\ hist[3].n = 1
    /\ ops = 2

\* ------------------------------------------------------------------ C24
\* C24: an operation of the hash adapter (HAdd, HValue, HDelete) on a key
\* whose item holds a payload that is no hash returns the type-mismatch
\* error: it neither aborts nor returns without an error, and it leaves the
\* payload as it was.
C24_TypeMismatchIsAnError ==
    \A e \in 1..Len(hist) :
        (/\ hist[e].fn \in {"HAdd", "HValue", "HDelete"}
         /\ hist[e].item # 0
         /\ heap[hist[e].item].data.kind # "hash")
           => /\ hist[e].err = "ErrKeyTypeNotHash"
              /\ heap[hist[e].item].data = Plain

\* ------------------------------------------------------------------ C25
\* C25: Delete looks the key up and removes it within one critical section
\* of the table's write lock, so that while a callback of the removal runs
\* the key no longer maps to the item being removed.
C25_DeleteRemovesUnderLock ==
    \A t \in Procs :
        (/\ Len(stack[t]) >= 3
         /\ stack[t][1].fn = "Delete"
         /\ stack[t][2].fn = "deleteInternal"
         /\ stack[t][3].fn = "callback")
           => items[stack[t][2].key] # stack[t][2].item

\* ------------------------------------------------------------------ C26
\* C26: when a sweep completes and an item with a life span remains in the
\* table, the cleanup timer is armed with the smallest of the remaining life
\* times (lifeSpan minus the time from the item's last access to the sweep's
\* time stamp) and cleanupInterval is that duration; when no such item
\* remains, no timer is armed and cleanupInterval is 0.  Stated for the
\* sweeps that end with no item in the table that was ever kept alive, whose
\* time of last access is the one the sweep has read.
C26_SweepRearms ==
    [][\A t \in Threads :
          (SweepEnds(t) /\ \A k \in Keys : items[k] # 0 => heap[items[k]].keepAlives = 0) =>
             LET live == {k \in Keys : items[k] # 0 /\ heap[items[k]].lifeSpan > 0}
                 left(k) == heap[items[k]].lifeSpan
                               - (Top(t).tnow - heap[items[k]].accessedOn)
             IN IF live # {}
                THEN /\ cleanupTimer'.state = "pending"
                     /\ \E k \in live :
                           /\ cleanupInterval' = left(k)
                           /\ cleanupTimer'.at - now = left(k)
                           /\ \A j \in live : left(k) <= left(j)
                ELSE /\ PendingTimers' = 0
                     /\ cleanupInterval' = 0]_vars

C28_Quiescence ==
    <>[](/\ \A k \in Keys :
              (items[k] # 0 /\ heap[items[k]].lifeSpan > 0)
                 => \/ heap[items[k]].accessedOn + heap[items[k]].lifeSpan > now
                    \/ PendingTimers > 0
         /\ (\A k \in Keys : items[k] # 0 => heap[items[k]].lifeSpan = 0)
                 => /\ ~(cleanupTimer.state = "pending" /\ cleanupTimer.at <= now)
                    /\ \A n \in 1..Len(orphanTimers) : orphanTimers[n] > now)

\* ------------------------------------------------------------------ C29
\* C29: whenever no sweep is running and the table holds an item with a life
\* span, a timer is pending for it.  Stated for the states in which no call
\* is in progress either, so that no Add is still about to run its check,
\* and for any pending timer, whenever it is due.
C29_TimerCoversItems ==
    (/\ \A t \in Threads : Idle(t)
     /\ \E k \in Keys : items[k] # 0 /\ heap[items[k]].lifeSpan > 0)
       => PendingTimers > 0

\* ------------------------------------------------------------------ C30
\* C30: a stored item is removed once: of the Delete calls that target the
\* same stored item exactly one returns it, and every other one returns
\* ErrKeyNotFound; so no two clients have the same item returned by Delete.
C30_RemovedOnce ==
    \A t, u \in Procs :
        (/\ t # u
         /\ ret[t].fn = "Delete" /\ ret[u].fn = "Delete"
         /\ ret[t].item # 0)
           => ret[t].item # ret[u].item

\* ------------------------------------------------------------------ C31
\* C31: a removal deletes the item it has looked up: when deleteInternal
\* executes delete(table.items, key), the key still maps to the item that
\* was passed to the callbacks and is returned, also when an Add of the same
\* key has inserted an item while the callbacks ran.
C31_RemovesWhatItLookedUp ==
    [][\A t \in Threads :
          (DeleteRemove(t) /\ items[Top(t).key] # 0)
             => items[Top(t).key] = Top(t).item]_vars

C33_AddReplaces ==
    /\ [][\A t \in Procs :
            AddInsert(t) =>
                LET f == Top(t)
                IN /\ items'[f.key] = f.item
                   /\ Count' = IF items[f.key] # 0 THEN Count ELSE Count + 1
                   /\ Top(t)'.cbs = addedItem /\ Top(t)'.item = f.item
                   /\ UNCHANGED <<heap, queueVars>>]_vars
    /\ [](\A a, b \in 1..Len(hist) :
            (/\ a < b
             /\ hist[a].fn = "Add" /\ hist[b].fn = "Add"
             /\ hist[a].key = hist[b].key /\ hist[a].item # hist[b].item
             /\ \A c \in a..b : ~(hist[c].fn = "deleteInternal"
                                     /\ hist[c].item = hist[a].item))
               => \A c \in (a + 1)..Len(hist) :
                     hist[c].item = hist[a].item
                        => hist[c].fn \notin {"callback", "deleteInternal", "Delete",
                                              "expirationCheck"})

\* An Add has replaced an item while an about-to-delete callback was
\* registered; the key was then deleted, which invoked the callback of the
\* table for the new item only.
C33_Witness ==
    \E a, b, c \in 1..Len(hist) :
        /\ a < b /\ b < c /\ c = Len(hist)
        /\ hist[a].fn = "Add" /\ hist[b].fn = "Add"
        /\ hist[a].key = hist[b].key /\ hist[a].item # hist[b].item
        /\ aboutToDeleteItem # <<>>
        /\ \A n \in a..b : hist[n].fn # "deleteInternal"
        /\ hist[c].fn = "Delete" /\ hist[c].item = hist[b].item
        /\ hist[c - 1].fn = "callback" /\ hist[c - 1].item = hist[b].item

\* ------------------------------------------------------------------ C34
\* C34: a Value that returns an item returns one that has not expired: the
\* time since its previous access is smaller than its life span, or the life
\* span is 0; and with one client, which calls no Delete and no Flush, the
\* item is still in the table when Value returns.
C34_ValueReturnsLiveItem ==
    [][\A t \in Procs :
          ValueKeepAlive(t) =>
              LET i == Top(t).item
              IN /\ heap[i].lifeSpan = 0
                       \/ ~Expired(now, heap[i].accessedOn, heap[i].lifeSpan)
                 /\ items'[Top(t).key] = i]_vars

\* ------------------------------------------------------------------ C35
\* C35: Flush discards the items and notifies no one: the step empties the
\* table and starts no callback of any queue (no goroutine's call stack
\* grows and the caller is back from the call), and it leaves the two
\* callback queues of the table, the about-to-expire callbacks of every
\* item and the loader as they were.
C35_FlushFrame ==
    [][\A t \in Procs :
          Flush(t) =>
              /\ \A k \in Keys : items'[k] = 0
              /\ \A u \in Threads : Len(stack'[u]) = Len(stack[u])
              /\ Idle(t)'
              /\ \A u \in Threads : \A n \in 1..Len(stack'[u]) :
                     /\ stack'[u][n].fn = stack[u][n].fn
                     /\ stack'[u][n].pc = stack[u][n].pc
                     /\ stack'[u][n].cbs = stack[u][n].cbs
              /\ addedItem' = addedItem
              /\ aboutToDeleteItem' = aboutToDeleteItem
              /\ loadData' = loadData
              /\ \A i \in ItemIds : heap'[i] = heap[i]
              /\ hist' = hist]_vars

\* A table with a loader, both kinds of table callbacks and an item has been
\* flushed.
C35_Witness ==
    /\ quietSinceFlush
    /\ \A k \in Keys : items[k] = 0
    /\ Allocated # {}
    /\ loadData # "nil"
    /\ addedItem # <<>> \/ aboutToDeleteItem # <<>>
    /\ \A t \in Threads : Idle(t)

\* ------------------------------------------------------------------ C36
\* C36: Foreach holds the read lock of the table from its start to its
\* return, visitor calls included: while a goroutine is inside Foreach nobody
\* holds the write lock, and no step of an Add, a Delete, a Flush or a sweep
\* changes the entries of the table or its cleanup interval; and a goroutine
\* whose visitor has called Add stays where it is, waiting for the write
\* lock, in every later step, so its Foreach does not return.
C36_ForeachHoldsReadLock ==
    /\ [](TableReaders # {} => tableW = 0)
    /\ [][TableReaders # {}
             => /\ items' = items
                /\ cleanupInterval' = cleanupInterval]_vars
    /\ [][\A t \in Procs :
            (/\ Len(stack[t]) = 2
             /\ stack[t][1].fn = "Foreach"
             /\ At(t, "Add", "lock"))
               => stack'[t] = stack[t]]_vars

\* Client 1 is inside Foreach with a visitor that has called Add and waits
\* for the write lock, and the sweep that the timer has started for an
\* expired item of the table waits for the lock as well.
C36_Witness ==
    /\ Len(stack[1]) = 2 /\ stack[1][1].fn = "Foreach" /\ At(1, "Add", "lock")
    /\ \E s \in Sweepers : At(s, "expirationCheck", "lock")
    /\ \E k \in Keys : /\ items[k] # 0
                        /\ heap[items[k]].lifeSpan > 0
                        /\ Expired(now, heap[items[k]].accessedOn, heap[items[k]].lifeSpan)

\* ------------------------------------------------------------------ C37
\* C37: the Set...Callback methods are atomic: when the only calls on the
\* callback queues are Sets, run by two clients at the same time, then once
\* all calls have returned every queue is one that some sequential order of
\* the Sets leaves, which holds at most one callback: the queue of added-item
\* callbacks, the queue of about-to-delete callbacks and the about-to-expire
\* queue of every item.
C37_SetsLeaveOneCallback ==
    (\A t \in Threads : Idle(t))
        => /\ Len(addedItem) <= 1
           /\ Len(aboutToDeleteItem) <= 1
           /\ \A i \in Allocated : Len(heap[i].aboutToExpire) <= 1

\* ------------------------------------------------------------------ C38
\* C38: RemoveCache(name) flushes the named table and removes it from the
\* registry: the step that deletes the entry of the first table leaves that
\* table empty and the name unregistered, a table registered later under any
\* name is a new one; and the map of the registry only changes in a step of a
\* goroutine that holds the registry lock alone: no other goroutine holds it
\* for reading at that time.
C38_RemoveCacheExclusive ==
    [][/\ \A t \in Procs :
            (RemoveCacheDelete(t) /\ registry.cache[Top(t).key] # 0)
               => /\ registry'.cache[Top(t).key] = 0
                  /\ registry.cache[Top(t).key] = 1 => \A k \in Keys : items'[k] = 0
       /\ \A n \in Names :
            (registry'.cache[n] # registry.cache[n] /\ registry'.cache[n] # 0)
               => registry'.cache[n] > registry.made
       /\ registry'.cache # registry.cache
            => \E t \in Procs : registry.readers \subseteq {t}]_vars

\* ------------------------------------------------------------------ C39
\* C39: after any sequence of SetAdd and SetRemove calls, Len() is the
\* number of distinct members for which SetHas is true, and it is not
\* negative.
C39_LenCountsMembers ==
    /\ SetLen = Cardinality({m \in Members : SetHas(m)})
    /\ SetLen >= 0

====
